---- MODULE Spec2Model ----
(***************************************************************************)
(* The window arena of flock (flock/src/runtime/arena/mod.rs): a hash map  *)
(* from window identities to window sessions, the fragment collection      *)
(* state machine (Arena::collect) and the extraction of a window's record  *)
(* batches (Arena::take_batches), with the read-only probes is_complete    *)
(* and get_bitmap.                                                         *)
(***************************************************************************)
EXTENDS Integers, Sequences, FiniteSets, TLC

(* The largest sequence length (fragments per window) of a payload. *)
MaxSeqLen == 3

(* The sequence length of every window of the join query q2. *)
JoinSeqLen == 2

(* The most groups per relation, and batches per group, of a session whose *)
(* schema is asked.                                                        *)
MaxGroups == 2

(* The largest count the lifetime observer keeps (it saturates there). *)
MaxCount == 2

(* The queries and shuffle partitions whose fragments reach this function. *)
QueryIds == {"q1", "q2"}
ShuffleIds == {0}

(* type WindowId = (QueryId, ShuffleId) *)
WindowIds == QueryIds \X ShuffleIds

(* q2 is a two-input query (a join): its payloads carry a second relation. *)
TwoInput(qid) == qid = "q2"

(* The sequence lengths the upstream stage of a query stamps on fragments. *)
SeqLens(qid) == IF TwoInput(qid) THEN {JoinSeqLen} ELSE 1..MaxSeqLen

MaxLen == IF MaxSeqLen < JoinSeqLen THEN JoinSeqLen ELSE MaxSeqLen

(* enum HashAggregateStatus; Panic stands for a failed assertion, which      *)
(* returns no status.                                                       *)
Processed == "Processed"
Ready == "Ready"
NotReady == "NotReady"
Panic == "Panic"
NoStatus == "-"

(***************************************************************************)
(* Bitmap (arena/bitmap.rs): n bits, all clear at construction; set and    *)
(* is_set of an index at or beyond the capacity fail.                      *)
(***************************************************************************)
BitmapNew(n) == [i \in 0..(n - 1) |-> FALSE]

BitmapInRange(bitmap, i) == i \in DOMAIN bitmap

BitmapIsSet(bitmap, i) == bitmap[i]

BitmapSetToggle(bitmap, i) == [bitmap EXCEPT ![i] = ~@]

BitmapSet(bitmap, i) == [bitmap EXCEPT ![i] = TRUE]

(***************************************************************************)
(* Payload and its fragment identity (runtime/payload.rs).  A record batch *)
(* is named by the fragment and the relation it belongs to: a redelivered  *)
(* fragment carries the same batches.                                      *)
(***************************************************************************)
Uuid(qid, seq_num, seq_len) ==
    [qid |-> qid, seq_num |-> seq_num, seq_len |-> seq_len]

RecordBatch(qid, sid, seq_num, rel) ==
    [qid |-> qid, shuffle_id |-> sid, frag |-> seq_num, rel |-> rel]

to_payload(batches, batches2, uuid, sid) ==
    [data |-> batches, data2 |-> batches2, uuid |-> uuid, shuffle_id |-> sid]

to_record_batch(payload) == <<payload.data, payload.data2>>

get_window_id(payload) == <<payload.uuid.qid, payload.shuffle_id>>

(* The payloads of the upstream stage: 1 <= seq_num <= seq_len. *)
Payloads ==
    { to_payload(<<RecordBatch(x[1], x[2], x[4], 1)>>,
                 IF TwoInput(x[1]) THEN <<RecordBatch(x[1], x[2], x[4], 2)>> ELSE <<>>,
                 Uuid(x[1], x[4], x[3]), x[2]) :
        x \in { y \in QueryIds \X ShuffleIds \X (1..MaxLen) \X (1..MaxLen) :
                  y[3] \in SeqLens(y[1]) /\ y[4] <= y[3] } }

(* The payload field of a call that takes none. *)
NoPayload == to_payload(<<>>, <<>>, Uuid("", 0, 0), 0)

(***************************************************************************)
(* State.                                                                  *)
(*   arena      Arena(HashMap<WindowId, WindowSession>): a function whose  *)
(*              domain is the set of live window identities.               *)
(*   ret        the last call and what it returned.                        *)
(*   delivered  per window, the sequence numbers submitted to the live     *)
(*              session by fragments that agree with its sequence length   *)
(*              (history; empty when absent).                              *)
(*   accepted   per window, the payloads whose collect call returned Ready *)
(*              or NotReady since the live session was created, in arrival *)
(*              order (history; empty when absent).                        *)
(*   readyCount per window, the Ready statuses returned since the live     *)
(*              session was created (history; 0 when absent).              *)
(*   readyTotal, handedOut   the lifetime observer: per window, the Ready  *)
(*              statuses ever returned and, per sequence number, how often *)
(*              take_batches handed out that fragment's batches.           *)
(*   peer, inst, route   a second Arena instance: the instance at rest,    *)
(*              the number of the running one, and the instance each       *)
(*              sequence number of the split window is routed to.          *)
(*   input, output   the argument and the result of a function applied on  *)
(*              its own (<<>>: none yet).                                  *)
(***************************************************************************)
VARIABLES arena, ret, delivered, accepted, readyCount, readyTotal, handedOut,
          peer, inst, route, input, output

vars == <<arena, ret, delivered, accepted, readyCount, readyTotal, handedOut,
          peer, inst, route, input, output>>

(* What the calls on one Arena leave alone. *)
aside == <<peer, inst, route, input, output>>

(* struct WindowSession *)
WindowSession(size, r1_records, r2_records, bitmap) ==
    [size |-> size, r1_records |-> r1_records, r2_records |-> r2_records,
     bitmap |-> bitmap]

(* RecordBatch::schema: the columns of a relation of a query. *)
BatchSchema(batch) == [qid |-> batch.qid, rel |-> batch.rel]

(* Result<(SchemaRef, Option<SchemaRef>)>: Ok with the two schemas (none   *)
(* as <<>>, some(s) as <<s>>), Err, or Panic for an index out of bounds.   *)
SchemaOk(schema1, schema2) == [kind |-> "Ok", r1 |-> <<schema1>>, r2 |-> schema2]
SchemaErr == [kind |-> "Err", r1 |-> <<>>, r2 |-> <<>>]
SchemaPanic == [kind |-> "Panic", r1 |-> <<>>, r2 |-> <<>>]

(* vec[0][0]: the first batch of the first group, if there is one. *)
HasFirstBatch(records) == records # <<>> /\ records[1] # <<>>

(* Variant: only the outer vector is tested for emptiness. *)
schemaNoGroupCheck(window) ==
    IF window.r1_records = <<>>
      THEN SchemaErr
    ELSE IF ~HasFirstBatch(window.r1_records)
      THEN SchemaPanic
    ELSE IF window.r2_records # <<>> /\ window.r2_records[1] # <<>>
      THEN SchemaOk(BatchSchema(window.r1_records[1][1]), <<>>)
    ELSE IF ~HasFirstBatch(window.r2_records)
      THEN SchemaPanic
    ELSE SchemaOk(BatchSchema(window.r1_records[1][1]),
                  <<BatchSchema(window.r2_records[1][1])>>)

(* WindowSession::schema, lines 75-89. *)
schema(window) ==
    IF window.r1_records = <<>> \/ window.r1_records[1] = <<>>
      THEN SchemaErr
    ELSE IF window.r2_records # <<>> /\ window.r2_records[1] # <<>>
      THEN SchemaOk(BatchSchema(window.r1_records[1][1]), <<>>)
    ELSE IF ~HasFirstBatch(window.r2_records)
      THEN SchemaPanic
    ELSE SchemaOk(BatchSchema(window.r1_records[1][1]),
                  <<BatchSchema(window.r2_records[1][1])>>)

(* Variant: the new entry replaces the map. *)
InsertAlone(map, key, value) == [k \in {key} |-> value]

(* HashMap::insert and HashMap::remove *)
Insert(map, key, value) ==
    [k \in DOMAIN map \cup {key} |-> IF k = key THEN value ELSE map[k]]

Remove(map, key) == [k \in DOMAIN map \ {key} |-> map[k]]

(* The last call: op, its window and payload, whether the window had a     *)
(* session before it (had), whether the call before it was the same call   *)
(* on the same window and found a session (again), and what it returned;   *)
(* the fields a call does not set keep these values.                       *)
NoRet ==
    [op |-> "new", window_id |-> <<"", 0>>, payload |-> NoPayload,
     had |-> FALSE, again |-> FALSE, status |-> NoStatus,
     batches |-> <<>>, flag |-> FALSE, bitmap |-> <<>>]

Call(op, window_id) ==
    [NoRet EXCEPT !.op = op, !.window_id = window_id,
                  !.had = window_id \in DOMAIN arena,
                  !.again = (ret.op = op /\ ret.window_id = window_id /\ ret.had)]

(***************************************************************************)
(* Arena::collect, the branch of a window with a live session (Some).      *)
(***************************************************************************)
(* Variant: the groups are put in front instead of appended. *)
PushRecordsFront(window, payload) ==
    [window EXCEPT
       !.r1_records = <<to_record_batch(payload)[1]>> \o @,
       !.r2_records = <<to_record_batch(payload)[2]>> \o @]

(* lines 135-137: push the fragment's groups. *)
PushRecords(window, payload) ==
    [window EXCEPT
       !.r1_records = Append(@, to_record_batch(payload)[1]),
       !.r2_records = Append(@, to_record_batch(payload)[2])]

(* Variant: the bit is indexed from 0 (seq_num - 1). *)
SetBitZeroBased(window, payload) ==
    [window EXCEPT !.bitmap = BitmapSet(@, payload.uuid.seq_num - 1)]

(* line 139: set the fragment's bit. *)
SetBit(window, payload) ==
    [window EXCEPT !.bitmap = BitmapSet(@, payload.uuid.seq_num)]

(* Variant: the window is complete when the fragment with the highest      *)
(* sequence number has arrived.                                            *)
MergedStatusLastArrived(window) ==
    IF BitmapIsSet(window.bitmap, window.size) THEN Ready ELSE NotReady

(* Variant: completion is tested against the count before the push. *)
MergedStatusBeforePush(window) ==
    IF window.size = Len(window.r1_records) - 1 THEN Ready ELSE NotReady

(* lines 140-144 *)
MergedStatus(window) ==
    IF window.size = Len(window.r1_records) THEN Ready ELSE NotReady

(* Variant: the bitmap is not consulted, a duplicate is merged again. *)
CollectSomeDupMerge(window, payload) ==
    LET uuid == payload.uuid
        merged == SetBit(PushRecords(window, payload), payload)
    IN  IF uuid.seq_len # window.size
          THEN [window |-> window, status |-> Panic]
        ELSE [window |-> merged, status |-> MergedStatus(merged)]

(* Variant: a fragment with another sequence length resizes the session. *)
CollectSomeResize(window, payload) ==
    LET uuid == payload.uuid
        resized == [window EXCEPT !.size = uuid.seq_len,
                                  !.bitmap = BitmapNew(uuid.seq_len + 1)]
        pushed == PushRecords(resized, payload)
        merged == SetBit(pushed, payload)
    IN  IF ~BitmapInRange(resized.bitmap, uuid.seq_num)
          THEN [window |-> window, status |-> Panic]
        ELSE IF uuid.seq_len = window.size
                  /\ BitmapIsSet(window.bitmap, uuid.seq_num)
          THEN [window |-> window, status |-> Processed]
        ELSE [window |-> merged, status |-> MergedStatus(merged)]

(* Variant: a duplicate reports the state of the window. *)
CollectSomeDupStatus(window, payload) ==
    LET uuid == payload.uuid
        pushed == PushRecords(window, payload)
        merged == SetBit(pushed, payload)
    IN  IF uuid.seq_len # window.size
          THEN [window |-> window, status |-> Panic]
        ELSE IF ~BitmapInRange(window.bitmap, uuid.seq_num)
          THEN [window |-> window, status |-> Panic]
        ELSE IF BitmapIsSet(window.bitmap, uuid.seq_num)
          THEN [window |-> window, status |-> MergedStatus(window)]
        ELSE [window |-> merged, status |-> MergedStatus(merged)]

(* Variant: the sequence length is not asserted. *)
CollectSomeNoAssert(window, payload) ==
    LET uuid == payload.uuid
        merged == SetBit(PushRecords(window, payload), payload)
    IN  IF ~BitmapInRange(window.bitmap, uuid.seq_num)
          THEN [window |-> window, status |-> Panic]
        ELSE IF BitmapIsSet(window.bitmap, uuid.seq_num)
          THEN [window |-> window, status |-> Processed]
        ELSE [window |-> merged, status |-> MergedStatus(merged)]

(* lines 133-147: the session after the call and the status (Panic: an     *)
(* assertion failed, or the bitmap index was out of range).                *)
CollectSome(window, payload) ==
    LET uuid == payload.uuid
        pushed == PushRecords(window, payload)
        merged == SetBit(pushed, payload)
    IN  IF uuid.seq_len # window.size
          THEN [window |-> window, status |-> Panic]
        ELSE IF ~BitmapInRange(window.bitmap, uuid.seq_num)
          THEN [window |-> window, status |-> Panic]
        ELSE IF BitmapIsSet(window.bitmap, uuid.seq_num)
          THEN [window |-> window, status |-> Processed]
        ELSE IF Len(pushed.r1_records) # Len(pushed.r2_records)
          THEN [window |-> pushed, status |-> Panic]
        ELSE [window |-> merged, status |-> MergedStatus(merged)]

(***************************************************************************)
(* Arena::collect, the branch of a window without a session (None).        *)
(***************************************************************************)
(* Variant: the second relation starts with no group. *)
NewSessionNoR2(payload) ==
    WindowSession(payload.uuid.seq_len,
                  <<to_record_batch(payload)[1]>>,
                  <<>>,
                  BitmapNew(payload.uuid.seq_len + 1))

(* lines 150-156 *)
NewSession(payload) ==
    WindowSession(payload.uuid.seq_len,
                  <<to_record_batch(payload)[1]>>,
                  <<to_record_batch(payload)[2]>>,
                  BitmapNew(payload.uuid.seq_len + 1))

(* Variant: the first fragment never completes a window. *)
NewStatusNever(uuid) == NotReady

(* lines 160-164 *)
NewStatus(uuid) == IF uuid.seq_len = 1 THEN Ready ELSE NotReady

(* lines 149-165; present is FALSE when the call fails before the insert. *)
CollectNone(payload) ==
    LET window == NewSession(payload)
    IN  IF ~BitmapInRange(window.bitmap, payload.uuid.seq_num)
          THEN [present |-> FALSE, window |-> window, status |-> Panic]
        ELSE [present |-> TRUE, window |-> SetBit(window, payload),
              status |-> NewStatus(payload.uuid)]

(* Variant: a session is evicted as soon as it is complete. *)
collectEvictReady(map, payload) ==
    LET window_id == get_window_id(payload)
    IN  IF window_id \in DOMAIN map
          THEN LET r == CollectSome(map[window_id], payload)
               IN  [arena |-> IF r.status = Ready THEN Remove(map, window_id)
                              ELSE [map EXCEPT ![window_id] = r.window],
                    status |-> r.status]
          ELSE LET r == CollectNone(payload)
               IN  [arena |-> IF r.present THEN Insert(map, window_id, r.window)
                              ELSE map,
                    status |-> r.status]

(* Arena::collect: the arena after the call and the status. *)
collect(map, payload) ==
    LET window_id == get_window_id(payload)
    IN  IF window_id \in DOMAIN map
          THEN LET r == CollectSome(map[window_id], payload)
               IN  [arena |-> [map EXCEPT ![window_id] = r.window],
                    status |-> r.status]
          ELSE LET r == CollectNone(payload)
               IN  [arena |-> IF r.present THEN Insert(map, window_id, r.window)
                              ELSE map,
                    status |-> r.status]

(* Variant: the session is read (get), not removed. *)
TakeBatchesKeep(map, window_id) ==
    IF window_id \in DOMAIN map
      THEN [arena |-> map,
            batches |-> <<map[window_id].r1_records, map[window_id].r2_records>>]
      ELSE [arena |-> map, batches |-> << <<>>, <<>> >>]

(* Arena::take_batches: the arena after the call and the two sequences. *)
take_batches(map, window_id) ==
    IF window_id \in DOMAIN map
      THEN [arena |-> Remove(map, window_id),
            batches |-> <<map[window_id].r1_records, map[window_id].r2_records>>]
      ELSE [arena |-> map, batches |-> << <<>>, <<>> >>]

(* Arena::get_bitmap: Option<&Bitmap>, none as <<>> and some(b) as <<b>>. *)
get_bitmap(map, window_id) ==
    IF window_id \in DOMAIN map THEN <<map[window_id].bitmap>> ELSE <<>>

(* Variant: an unknown window counts as complete (unwrap_or(true)). *)
IsCompleteDefaultTrue(map, window_id) ==
    IF window_id \in DOMAIN map
      THEN map[window_id].size = Len(map[window_id].r1_records)
      ELSE TRUE

(* Arena::is_complete *)
is_complete(map, window_id) ==
    IF window_id \in DOMAIN map
      THEN map[window_id].size = Len(map[window_id].r1_records)
      ELSE FALSE

(***************************************************************************)
(* The calls.  Each is the whole method: the arena after it, what it       *)
(* returned, and the history of the live sessions.                         *)
(***************************************************************************)
Min(a, b) == IF a < b THEN a ELSE b

NoSessions == [w \in {} |-> 0]

Init ==
    /\ arena = NoSessions
    /\ ret = NoRet
    /\ delivered = [w \in WindowIds |-> {}]
    /\ accepted = [w \in WindowIds |-> <<>>]
    /\ readyCount = [w \in WindowIds |-> 0]
    /\ readyTotal = [w \in WindowIds |-> 0]
    /\ handedOut = [w \in WindowIds |-> [n \in 1..MaxLen |-> 0]]
    /\ peer = <<>> /\ inst = 1 /\ route = <<>>
    /\ input = <<>> /\ output = <<>>

(* arena.collect(payload) *)
CollectCall(payload) ==
    LET window_id == get_window_id(payload)
        r == collect(arena, payload)
    IN  /\ arena' = r.arena
        /\ ret' = [Call("collect", window_id) EXCEPT
                     !.payload = payload, !.status = r.status]
        /\ delivered' =
             IF window_id \in DOMAIN arena
                  => arena[window_id].size = payload.uuid.seq_len
               THEN [delivered EXCEPT ![window_id] = @ \cup {payload.uuid.seq_num}]
               ELSE delivered
        /\ accepted' =
             IF r.status \in {Ready, NotReady}
               THEN [accepted EXCEPT ![window_id] = Append(@, payload)]
               ELSE accepted
        /\ readyCount' =
             IF r.status = Ready
               THEN [readyCount EXCEPT ![window_id] = Min(@ + 1, MaxCount)]
               ELSE readyCount

(* arena.take_batches(&window_id) *)
TakeBatchesCall(window_id) ==
    LET r == take_batches(arena, window_id)
    IN  /\ arena' = r.arena
        /\ ret' = [Call("take_batches", window_id) EXCEPT !.batches = r.batches]
        /\ delivered' = [delivered EXCEPT ![window_id] = {}]
        /\ accepted' = [accepted EXCEPT ![window_id] = <<>>]
        /\ readyCount' = [readyCount EXCEPT ![window_id] = 0]

(* arena.is_complete(&window_id) *)
IsCompleteCall(window_id) ==
    /\ ret' = [Call("is_complete", window_id) EXCEPT
                 !.flag = is_complete(arena, window_id)]
    /\ UNCHANGED <<arena, delivered, accepted, readyCount>>

(* Variant: the probe takes the session out of the map (remove for get). *)
GetBitmapCallRemoves(window_id) ==
    /\ ret' = [Call("get_bitmap", window_id) EXCEPT
                 !.bitmap = get_bitmap(arena, window_id)]
    /\ arena' = Remove(arena, window_id)
    /\ UNCHANGED <<delivered, accepted, readyCount>>

(* arena.get_bitmap(&window_id) *)
GetBitmapCall(window_id) ==
    /\ ret' = [Call("get_bitmap", window_id) EXCEPT
                 !.bitmap = get_bitmap(arena, window_id)]
    /\ UNCHANGED <<arena, delivered, accepted, readyCount>>

(* A failed assertion is fatal to the invocation: the arena takes no more  *)
(* calls.                                                                  *)
Alive == ret.status # Panic

Collect(payload) ==
    Alive /\ CollectCall(payload) /\ UNCHANGED <<readyTotal, handedOut, aside>>

TakeBatches(window_id) ==
    Alive /\ TakeBatchesCall(window_id) /\ UNCHANGED <<readyTotal, handedOut, aside>>

IsComplete(window_id) ==
    Alive /\ IsCompleteCall(window_id) /\ UNCHANGED <<readyTotal, handedOut, aside>>

GetBitmap(window_id) ==
    Alive /\ GetBitmapCall(window_id) /\ UNCHANGED <<readyTotal, handedOut, aside>>

(* A failed assertion is fatal to the invocation: the arena takes no more  *)
(* calls.                                                                  *)
Next ==
    \/ \E payload \in Payloads : Collect(payload)
    \/ \E window_id \in WindowIds : TakeBatches(window_id)
    \/ \E window_id \in WindowIds : IsComplete(window_id)
    \/ \E window_id \in WindowIds : GetBitmap(window_id)

Spec == Init /\ [][Next]_vars

(***************************************************************************)
(* The lifetime observer: the same calls on one window under at-least-once *)
(* delivery, counting over the whole run (across sessions of the window)   *)
(* the Ready statuses and how often each fragment's batches were handed    *)
(* out.                                                                    *)
(***************************************************************************)
ObservedWindow == <<"q1", 0>>

(* The sequence numbers of the fragments whose batches are in the groups. *)
Fragments(groups) ==
    { groups[k][1].frag : k \in DOMAIN groups }

CollectObserved(payload) ==
    /\ Alive
    /\ CollectCall(payload)
    /\ readyTotal' =
         IF ret'.status = Ready
           THEN [readyTotal EXCEPT ![get_window_id(payload)] = Min(@ + 1, MaxCount)]
           ELSE readyTotal
    /\ UNCHANGED <<handedOut, aside>>

TakeBatchesObserved(window_id) ==
    /\ Alive
    /\ TakeBatchesCall(window_id)
    /\ handedOut' =
         [handedOut EXCEPT ![window_id] =
            [n \in 1..MaxLen |->
               IF n \in Fragments(ret'.batches[1]) THEN Min(@[n] + 1, MaxCount)
               ELSE @[n]]]
    /\ UNCHANGED <<readyTotal, aside>>

NextLifetime ==
    \/ \E payload \in Payloads :
         get_window_id(payload) = ObservedWindow /\ CollectObserved(payload)
    \/ TakeBatchesObserved(ObservedWindow)

SpecLifetime == Init /\ [][NextLifetime]_vars

(***************************************************************************)
(* The same calls on three windows, two of which differ in the shuffle id  *)
(* only and two in the query id only.                                      *)
(***************************************************************************)
KeyWindowIds == {<<"q1", 0>>, <<"q1", 1>>, <<"q2", 0>>}

(* The window of the first query and shuffle has one fragment or several,  *)
(* its neighbour in the shuffle id several, the other query's window one.  *)
KeySeqLens(window_id) ==
    IF window_id = <<"q1", 0>> THEN {1, JoinSeqLen}
    ELSE IF window_id = <<"q1", 1>> THEN {JoinSeqLen} ELSE {1}

KeyPayloads ==
    { to_payload(<<RecordBatch(x[1][1], x[1][2], x[3], 1)>>,
                 IF TwoInput(x[1][1]) THEN <<RecordBatch(x[1][1], x[1][2], x[3], 2)>>
                 ELSE <<>>,
                 Uuid(x[1][1], x[3], x[2]), x[1][2]) :
        x \in { y \in KeyWindowIds \X (1..JoinSeqLen) \X (1..JoinSeqLen) :
                  y[2] \in KeySeqLens(y[1]) /\ y[3] <= y[2] } }

InitKeys ==
    /\ arena = NoSessions
    /\ ret = NoRet
    /\ delivered = [w \in KeyWindowIds |-> {}]
    /\ accepted = [w \in KeyWindowIds |-> <<>>]
    /\ readyCount = [w \in KeyWindowIds |-> 0]
    /\ readyTotal = [w \in WindowIds |-> 0]
    /\ handedOut = [w \in WindowIds |-> [n \in 1..MaxLen |-> 0]]
    /\ peer = <<>> /\ inst = 1 /\ route = <<>>
    /\ input = <<>> /\ output = <<>>

NextKeys ==
    \/ \E payload \in KeyPayloads : Collect(payload)
    \/ \E window_id \in KeyWindowIds : TakeBatches(window_id)

SpecKeys == InitKeys /\ [][NextKeys]_vars

(***************************************************************************)
(* One window whose fragments are split between two Arena instances (two   *)
(* function instances, each with its own arena).  arena is the instance    *)
(* that is running, peer the other one; route[n] is the instance fragment  *)
(* n is sent to, and its length is the window's seq_len.                   *)
(***************************************************************************)
Instances == {1, 2}

(* Each instance is sent some fragment, so neither is sent all of them. *)
Routes ==
    { r \in UNION { [1..n -> Instances] : n \in 2..MaxSeqLen } :
        \A i \in Instances : \E n \in DOMAIN r : r[n] = i }

InitSplit ==
    /\ arena = NoSessions
    /\ ret = NoRet
    /\ delivered = [w \in WindowIds |-> {}]
    /\ accepted = [w \in WindowIds |-> <<>>]
    /\ readyCount = [w \in WindowIds |-> 0]
    /\ readyTotal = [w \in WindowIds |-> 0]
    /\ handedOut = [w \in WindowIds |-> [n \in 1..MaxLen |-> 0]]
    /\ peer = NoSessions /\ inst = 1 /\ route \in Routes
    /\ input = <<>> /\ output = <<>>

(* The running instance collects a fragment that is routed to it. *)
CollectRouted(payload) ==
    /\ Alive
    /\ get_window_id(payload) = ObservedWindow
    /\ payload.uuid.seq_len = Len(route)
    /\ route[payload.uuid.seq_num] = inst
    /\ CollectCall(payload)
    /\ UNCHANGED <<readyTotal, handedOut, aside>>

IsCompleteRouted ==
    /\ Alive
    /\ IsCompleteCall(ObservedWindow)
    /\ UNCHANGED <<readyTotal, handedOut, aside>>

(* The other instance runs next. *)
Switch ==
    /\ Alive
    /\ arena' = peer /\ peer' = arena /\ inst' = 3 - inst
    /\ UNCHANGED <<ret, delivered, accepted, readyCount, readyTotal, handedOut,
                   route, input, output>>

NextSplit ==
    \/ \E payload \in Payloads : CollectRouted(payload)
    \/ IsCompleteRouted
    \/ Switch

SpecSplit == InitSplit /\ [][NextSplit]_vars

(***************************************************************************)
(* WindowSession::schema applied to a session: the fields are public, so   *)
(* any vectors of groups may be there.                                     *)
(***************************************************************************)
SeqsUpTo(S, n) == UNION { [1..k -> S] : k \in 0..n }

(* The groups of relation rel: up to MaxGroups batches of the join query. *)
SchemaGroups(rel) ==
    SeqsUpTo({RecordBatch("q2", 0, 1, rel)}, MaxGroups)

SchemaSessions ==
    { WindowSession(JoinSeqLen, r1, r2, BitmapNew(JoinSeqLen + 1)) :
        r1 \in SeqsUpTo(SchemaGroups(1), MaxGroups),
        r2 \in SeqsUpTo(SchemaGroups(2), MaxGroups) }

InitSchema ==
    /\ arena = NoSessions
    /\ ret = NoRet
    /\ delivered = [w \in WindowIds |-> {}]
    /\ accepted = [w \in WindowIds |-> <<>>]
    /\ readyCount = [w \in WindowIds |-> 0]
    /\ readyTotal = [w \in WindowIds |-> 0]
    /\ handedOut = [w \in WindowIds |-> [n \in 1..MaxLen |-> 0]]
    /\ peer = <<>> /\ inst = 1 /\ route = <<>>
    /\ input \in SchemaSessions
    /\ output = <<>>

(* window.schema() *)
SchemaCall ==
    /\ output = <<>>
    /\ output' = <<schema(input)>>
    /\ UNCHANGED <<arena, ret, delivered, accepted, readyCount, readyTotal,
                   handedOut, peer, inst, route, input>>

NextSchema == SchemaCall

SpecSchema == InitSchema /\ [][NextSchema]_vars

(***************************************************************************)
(* context.rs: the execution context, a physical plan with the name of the *)
(* function, the next call and the data source.                            *)
(***************************************************************************)
(* The schemas of the two tables of tests::feed_two_source. *)
Schema1 == <<"a", "b">>

Schema2 == <<"c", "d">>

Schemas == {Schema1, Schema2}

(* A record batch of a table: its schema and which batch it is. *)
Batch(sch, i) == [schema |-> sch, id |-> i]

(* A node of the plan: the operator, and for a memory_exec leaf its schema *)
(* and its partitions (Vec<Vec<RecordBatch>>).                             *)
PlanNode(kind, sch, partitions, children) ==
    [execution_plan |-> kind, schema |-> sch, partitions |-> partitions,
     children |-> children]

MemoryExec(sch, partitions) == PlanNode("memory_exec", sch, partitions, <<>>)

CoalesceBatchesExec(child) ==
    PlanNode("coalesce_batches_exec", <<>>, <<>>, <<child>>)

HashJoinExec(left, right) ==
    PlanNode("hash_join_exec", <<>>, <<>>, <<left, right>>)

(* p.schema() *)
RECURSIVE PlanSchema(_)
PlanSchema(p) ==
    IF p.execution_plan = "memory_exec" THEN p.schema
    ELSE IF p.execution_plan = "coalesce_batches_exec"
           THEN PlanSchema(p.children[1])
    ELSE PlanSchema(p.children[1]) \o PlanSchema(p.children[2])

(* The next call. *)
CloudFunction(kind, name, size) == [kind |-> kind, name |-> name, size |-> size]

CloudFunctionNone == CloudFunction("None", "", 0)

ExecutionContext(plan, name, next, datasource) ==
    [plan |-> plan, name |-> name, next |-> next, datasource |-> datasource]

(* The number a token stands for, among 0..max. *)
IsNum(token, max) == \E n \in 0..max : ToString(n) = token

Num(token, max) == CHOOSE n \in 0..max : ToString(n) = token

(* The highest group size (u8). *)
MaxGroupSize == 255

(* serde_json::to_string(&plan): the operator, then the fields of a        *)
(* memory_exec (its schema; the partitions are skipped), then the inputs.  *)
RECURSIVE PlanToString(_)
PlanToString(p) ==
    <<p.execution_plan>>
    \o (IF p.execution_plan = "memory_exec"
          THEN <<ToString(Len(p.schema))>> \o p.schema ELSE <<>>)
    \o (IF Len(p.children) >= 1 THEN PlanToString(p.children[1]) ELSE <<>>)
    \o (IF Len(p.children) >= 2 THEN PlanToString(p.children[2]) ELSE <<>>)

ParseFail == [ok |-> FALSE, value |-> <<>>, rest |-> <<>>]

Parsed(value, rest) == [ok |-> TRUE, value |-> value, rest |-> rest]

(* serde_json::from_str::<Arc<dyn ExecutionPlan>>: a memory_exec comes     *)
(* back without partitions.                                                *)
RECURSIVE PlanFromString(_)
PlanFromString(s) ==
    IF s = <<>> THEN ParseFail
    ELSE IF s[1] = "memory_exec"
      THEN IF Len(s) < 2 \/ ~IsNum(s[2], Len(s)) THEN ParseFail
           ELSE LET n == Num(s[2], Len(s))
                IN  IF Len(s) < 2 + n THEN ParseFail
                    ELSE Parsed(MemoryExec(SubSeq(s, 3, 2 + n), <<>>),
                                SubSeq(s, 3 + n, Len(s)))
    ELSE IF s[1] = "coalesce_batches_exec"
      THEN LET input1 == PlanFromString(Tail(s))
           IN  IF input1.ok
                 THEN Parsed(CoalesceBatchesExec(input1.value), input1.rest)
                 ELSE ParseFail
    ELSE IF s[1] = "hash_join_exec"
      THEN LET left == PlanFromString(Tail(s))
           IN  IF ~left.ok THEN ParseFail
               ELSE LET right == PlanFromString(left.rest)
                    IN  IF right.ok
                          THEN Parsed(HashJoinExec(left.value, right.value),
                                      right.rest)
                          ELSE ParseFail
    ELSE ParseFail

(* #[derive(Serialize, Deserialize)] of CloudFunction *)
CloudFunctionToString(next) ==
    IF next.kind = "Solo" THEN <<"Solo", next.name>>
    ELSE IF next.kind = "Chorus"
      THEN <<"Chorus", next.name, ToString(next.size)>>
    ELSE <<"None">>

CloudFunctionFromString(s) ==
    IF s = <<>> THEN ParseFail
    ELSE IF s[1] = "Solo"
      THEN IF Len(s) < 2 THEN ParseFail
           ELSE Parsed(CloudFunction("Solo", s[2], 0), SubSeq(s, 3, Len(s)))
    ELSE IF s[1] = "Chorus"
      THEN IF Len(s) < 3 \/ ~IsNum(s[3], MaxGroupSize) THEN ParseFail
           ELSE Parsed(CloudFunction("Chorus", s[2], Num(s[3], MaxGroupSize)),
                       SubSeq(s, 4, Len(s)))
    ELSE IF s[1] = "None" THEN Parsed(CloudFunctionNone, Tail(s))
    ELSE ParseFail

DataSources == {"Payload", "UnknownEvent"}

(* serde_json::to_vec(&self) of the context: plan, name, next, datasource. *)
ContextToVec(ctx) ==
    PlanToString(ctx.plan) \o <<ctx.name>> \o CloudFunctionToString(ctx.next)
    \o <<ctx.datasource>>

(* serde_json::from_slice::<ExecutionContext> *)
ContextFromSlice(bytes) ==
    LET plan == PlanFromString(bytes)
    IN  IF ~plan.ok \/ plan.rest = <<>> THEN ParseFail
        ELSE LET next == CloudFunctionFromString(Tail(plan.rest))
             IN  IF ~next.ok \/ Len(next.rest) # 1
                    \/ next.rest[1] \notin DataSources
                   THEN ParseFail
                   ELSE Parsed(ExecutionContext(plan.value, plan.rest[1],
                                                next.value, next.rest[1]),
                               <<>>)

(* Encoding: None, Snappy and a scheme the context does not support. *)
Encodings == {"None", "Snappy", "Lz4"}

(* The longest run one count byte can hold. *)
MaxRun == 255

(* The length of the run of equal bytes at the head. *)
RECURSIVE Run(_)
Run(bytes) ==
    IF Len(bytes) >= 2 /\ bytes[2] = bytes[1] THEN 1 + Run(Tail(bytes)) ELSE 1

(* Encoding::encoder of Snappy: a lossless compression, here run lengths. *)
RECURSIVE encoder(_)
encoder(bytes) ==
    IF bytes = <<>> THEN <<>>
    ELSE LET n == Min(Run(bytes), MaxRun)
         IN  <<ToString(n), bytes[1]>> \o encoder(SubSeq(bytes, n + 1, Len(bytes)))

(* Encoding::decoder of Snappy; ok is false for bytes no encoder wrote. *)
RECURSIVE decoder(_)
decoder(bytes) ==
    IF bytes = <<>> THEN Parsed(<<>>, <<>>)
    ELSE IF Len(bytes) < 2 \/ ~IsNum(bytes[1], MaxRun) THEN ParseFail
    ELSE LET more == decoder(Tail(Tail(bytes)))
         IN  IF more.ok
               THEN Parsed([i \in 1..Num(bytes[1], MaxRun) |-> bytes[2]]
                           \o more.value, <<>>)
               ELSE ParseFail

(* struct CloudEnvironment and its text *)
CloudEnvironment(context, encoding) == [context |-> context, encoding |-> encoding]

EnvironmentToString(env) ==
    <<"context">> \o env.context \o <<"encoding", env.encoding>>

EnvironmentFromStr(s) ==
    IF Len(s) >= 3 /\ s[1] = "context" /\ s[Len(s) - 1] = "encoding"
         /\ s[Len(s)] \in Encodings
      THEN Parsed(CloudEnvironment(SubSeq(s, 2, Len(s) - 2), s[Len(s)]), <<>>)
      ELSE ParseFail

ContextPanic == [kind |-> "Panic", value |-> <<>>]

ContextOk(value) == [kind |-> "Ok", value |-> value]

(* Variant: any other encoding is marshalled as None. *)
marshalFallback(ctx, encoding) ==
    IF encoding = "Snappy"
      THEN ContextOk(EnvironmentToString(
               CloudEnvironment(encoder(ContextToVec(ctx)), encoding)))
      ELSE ContextOk(EnvironmentToString(
               CloudEnvironment(ContextToVec(ctx), "None")))

(* ExecutionContext::marshal *)
marshal(ctx, encoding) ==
    IF encoding = "Snappy"
      THEN ContextOk(EnvironmentToString(
               CloudEnvironment(encoder(ContextToVec(ctx)), encoding)))
    ELSE IF encoding = "None"
      THEN ContextOk(EnvironmentToString(
               CloudEnvironment(ContextToVec(ctx), encoding)))
    ELSE ContextPanic

(* Variant: the context bytes are read as they are, whatever the encoding. *)
unmarshalNoDecode(s) ==
    LET env == EnvironmentFromStr(s)
    IN  IF ~env.ok THEN ContextPanic
        ELSE LET ctx == ContextFromSlice(env.value.context)
             IN  IF ctx.ok THEN ContextOk(ctx.value) ELSE ContextPanic

(* Variant: a tag that is not Snappy is read as None. *)
unmarshalLenient(s) ==
    LET env == EnvironmentFromStr(s)
    IN  IF ~env.ok THEN ContextPanic
        ELSE LET encoded == IF env.value.encoding = "Snappy"
                              THEN decoder(env.value.context)
                              ELSE Parsed(env.value.context, <<>>)
             IN  IF ~encoded.ok THEN ContextPanic
                 ELSE LET ctx == ContextFromSlice(encoded.value)
                      IN  IF ctx.ok THEN ContextOk(ctx.value) ELSE ContextPanic

(* ExecutionContext::unmarshal *)
unmarshal(s) ==
    LET env == EnvironmentFromStr(s)
    IN  IF ~env.ok THEN ContextPanic
        ELSE IF env.value.encoding = "Snappy"
          THEN LET encoded == decoder(env.value.context)
               IN  IF ~encoded.ok THEN ContextPanic
                   ELSE LET ctx == ContextFromSlice(encoded.value)
                        IN  IF ctx.ok THEN ContextOk(ctx.value) ELSE ContextPanic
        ELSE IF env.value.encoding = "None"
          THEN LET ctx == ContextFromSlice(env.value.context)
               IN  IF ctx.ok THEN ContextOk(ctx.value) ELSE ContextPanic
        ELSE ContextPanic

(* Variant: the plans are compared as trees, with what the leaves hold. *)
ContextEqStructural(self, other) ==
    /\ self.name = other.name
    /\ self.next = other.next
    /\ self.datasource = other.datasource
    /\ self.plan = other.plan

(* impl PartialEq for ExecutionContext *)
ContextEq(self, other) ==
    /\ self.name = other.name
    /\ self.next = other.next
    /\ self.datasource = other.datasource
    /\ PlanToString(self.plan) = PlanToString(other.plan)

(* The plans: one or two memory_exec leaves, fresh from unmarshal (no      *)
(* partitions) or holding the batches of an earlier run, under a           *)
(* coalesce_batches_exec, a hash_join_exec, or both.                       *)
Leaves ==
    UNION { { MemoryExec(sch, partitions) :
                partitions \in {<<>>, << <<Batch(sch, 0)>> >>} } :
            sch \in Schemas }

Plans ==
    Leaves
    \cup { CoalesceBatchesExec(l) : l \in Leaves }
    \cup { HashJoinExec(l, r) : l \in Leaves, r \in Leaves }
    \cup { HashJoinExec(CoalesceBatchesExec(l), r) : l \in Leaves, r \in Leaves }
    \cup { HashJoinExec(l, CoalesceBatchesExec(r)) : l \in Leaves, r \in Leaves }
    \cup { CoalesceBatchesExec(HashJoinExec(l, r)) : l \in Leaves, r \in Leaves }

Contexts ==
    { ExecutionContext(plan, name, next, datasource) :
        plan \in Plans, name \in {"hello", "test"},
        next \in {CloudFunctionNone, CloudFunction("Solo", "SX72-00", 0),
                  CloudFunction("Chorus", "SX72-01", 2)},
        datasource \in DataSources }

(***************************************************************************)
(* A context is marshalled on the client and unmarshalled in the cloud.    *)
(***************************************************************************)
InitMarshal ==
    /\ arena = NoSessions
    /\ ret = NoRet
    /\ delivered = [w \in WindowIds |-> {}]
    /\ accepted = [w \in WindowIds |-> <<>>]
    /\ readyCount = [w \in WindowIds |-> 0]
    /\ readyTotal = [w \in WindowIds |-> 0]
    /\ handedOut = [w \in WindowIds |-> [n \in 1..MaxLen |-> 0]]
    /\ peer = <<>> /\ inst = 1 /\ route = <<>>
    /\ input \in [ctx : Contexts, encoding : Encodings]
    /\ output = <<>>

(* ctx.marshal(encoding) *)
MarshalCall ==
    /\ output = <<>>
    /\ output' = <<[op |-> "marshal", json |-> marshal(input.ctx, input.encoding),
                    ctx |-> ContextPanic]>>
    /\ UNCHANGED <<arena, ret, delivered, accepted, readyCount, readyTotal,
                   handedOut, peer, inst, route, input>>

(* ExecutionContext::unmarshal(&json) *)
UnmarshalCall ==
    /\ output # <<>> /\ output[1].op = "marshal" /\ output[1].json.kind = "Ok"
    /\ output' = <<[output[1] EXCEPT !.op = "unmarshal",
                                     !.ctx = unmarshal(output[1].json.value)]>>
    /\ UNCHANGED <<arena, ret, delivered, accepted, readyCount, readyTotal,
                   handedOut, peer, inst, route, input>>

NextMarshal == MarshalCall \/ UnmarshalCall

SpecMarshal == InitMarshal /\ [][NextMarshal]_vars

(***************************************************************************)
(* Feeding record batches to the leaves of the plan.  The queue of the     *)
(* search holds nodes of the tree itself (clones of the Arc), here the     *)
(* paths to them: the child indices from the root.                         *)
(***************************************************************************)
RECURSIVE NodeAt(_, _)
NodeAt(plan, path) ==
    IF path = <<>> THEN plan
    ELSE NodeAt(plan.children[Head(path)], Tail(path))

(* Arc::get_mut_unchecked(&mut p) ... .set_partitions(&partitions) *)
RECURSIVE SetPartitionsAt(_, _, _)
SetPartitionsAt(plan, path, partitions) ==
    IF path = <<>> THEN [plan EXCEPT !.partitions = partitions]
    ELSE [plan EXCEPT !.children[Head(path)] =
                          SetPartitionsAt(@, Tail(path), partitions)]

(* p.children(), in order *)
ChildPaths(plan, path) ==
    [i \in 1..Len(NodeAt(plan, path).children) |-> Append(path, i)]

(* downcast_mut::<MemoryExec>().unwrap().set_partitions(&partitions) *)
Downcast(plan, path, partitions) ==
    IF NodeAt(plan, path).execution_plan = "memory_exec"
      THEN ContextOk(SetPartitionsAt(plan, path, partitions))
      ELSE ContextPanic

(* Variant: the children go to the front of the queue (depth first). *)
RECURSIVE FeedOneLoopDepthFirst(_, _, _)
FeedOneLoopDepthFirst(plan, queue, partitions) ==
    IF queue = <<>> THEN ContextOk(plan)
    ELSE IF NodeAt(plan, Head(queue)).children = <<>>
      THEN Downcast(plan, Head(queue), partitions)
    ELSE FeedOneLoopDepthFirst(plan, ChildPaths(plan, Head(queue)) \o Tail(queue),
                               partitions)

(* The while loop of feed_one_source. *)
RECURSIVE FeedOneLoop(_, _, _)
FeedOneLoop(plan, queue, partitions) ==
    IF queue = <<>> THEN ContextOk(plan)
    ELSE IF NodeAt(plan, Head(queue)).children = <<>>
      THEN Downcast(plan, Head(queue), partitions)
    ELSE FeedOneLoop(plan, Tail(queue) \o ChildPaths(plan, Head(queue)),
                     partitions)

(* ctx.feed_one_source(&partitions) *)
feed_one_source(plan, partitions) == FeedOneLoop(plan, << <<>> >>, partitions)

(* Variant: the schemas are not compared. *)
FeedCandidateAny(plan, path, partition) ==
    IF partition = <<>> \/ partition[1] = <<>> THEN ContextPanic
    ELSE Downcast(plan, path, partition)

(* One round of `for partition in &[&left, &right]`: partition[0][0] is    *)
(* out of bounds for an input without a batch.                             *)
FeedCandidate(plan, path, partition) ==
    IF partition = <<>> \/ partition[1] = <<>> THEN ContextPanic
    ELSE IF PlanSchema(NodeAt(plan, path)) = partition[1][1].schema
      THEN Downcast(plan, path, partition)
    ELSE ContextOk(plan)

(* Variant: the search ends at the first leaf, as in feed_one_source. *)
FeedTwoLoopBreak(plan, queue, left, right) ==
    LET RECURSIVE Loop(_)
        Loop(q) ==
            IF q = <<>> THEN ContextOk(plan)
            ELSE IF NodeAt(plan, Head(q)).children = <<>>
              THEN LET fed1 == FeedCandidate(plan, Head(q), left)
                   IN  IF fed1.kind = "Panic" THEN ContextPanic
                       ELSE FeedCandidate(fed1.value, Head(q), right)
            ELSE Loop(Tail(q) \o ChildPaths(plan, Head(q)))
    IN  Loop(queue)

(* Variant: the right input is tried before the left one. *)
FeedTwoLoopRightFirst(plan, queue, left, right) ==
    LET RECURSIVE Loop(_, _)
        Loop(pl, q) ==
            IF q = <<>> THEN ContextOk(pl)
            ELSE IF NodeAt(pl, Head(q)).children = <<>>
              THEN LET fed1 == FeedCandidate(pl, Head(q), right)
                   IN  IF fed1.kind = "Panic" THEN ContextPanic
                       ELSE LET fed2 == FeedCandidate(fed1.value, Head(q), left)
                            IN  IF fed2.kind = "Panic" THEN ContextPanic
                                ELSE Loop(fed2.value, Tail(q))
            ELSE Loop(pl, Tail(q) \o ChildPaths(pl, Head(q)))
    IN  Loop(plan, queue)

(* The while loop of feed_two_source. *)
RECURSIVE FeedTwoLoop(_, _, _, _)
FeedTwoLoop(plan, queue, left, right) ==
    IF queue = <<>> THEN ContextOk(plan)
    ELSE IF NodeAt(plan, Head(queue)).children = <<>>
      THEN LET fed1 == FeedCandidate(plan, Head(queue), left)
           IN  IF fed1.kind = "Panic" THEN ContextPanic
               ELSE LET fed2 == FeedCandidate(fed1.value, Head(queue), right)
                    IN  IF fed2.kind = "Panic" THEN ContextPanic
                        ELSE FeedTwoLoop(fed2.value, Tail(queue), left, right)
    ELSE FeedTwoLoop(plan, Tail(queue) \o ChildPaths(plan, Head(queue)),
                     left, right)

(* ctx.feed_two_source(&left, &right) *)
feed_two_source(plan, left, right) == FeedTwoLoop(plan, << <<>> >>, left, right)

(* The inputs: no partition, a partition without a batch, or one partition *)
(* of batches of one table.                                                *)
FeedInputs ==
    {<<>>, << <<>> >>}
    \cup { << [i \in 1..k |-> Batch(sch, i)] >> : sch \in Schemas, k \in 1..MaxGroups }

InitFeed ==
    /\ arena = NoSessions
    /\ ret = NoRet
    /\ delivered = [w \in WindowIds |-> {}]
    /\ accepted = [w \in WindowIds |-> <<>>]
    /\ readyCount = [w \in WindowIds |-> 0]
    /\ readyTotal = [w \in WindowIds |-> 0]
    /\ handedOut = [w \in WindowIds |-> [n \in 1..MaxLen |-> 0]]
    /\ peer = <<>> /\ inst = 1 /\ route = <<>>
    /\ input \in [ctx : { ExecutionContext(plan, "test", CloudFunctionNone,
                                           "UnknownEvent") : plan \in Plans },
                  left : FeedInputs, right : FeedInputs]
    /\ output = <<>>

FeedOneSourceCall ==
    /\ output = <<>>
    /\ output' = <<[op |-> "feed_one_source",
                    plan |-> feed_one_source(input.ctx.plan, input.left)]>>
    /\ UNCHANGED <<arena, ret, delivered, accepted, readyCount, readyTotal,
                   handedOut, peer, inst, route, input>>

FeedTwoSourceCall ==
    /\ output = <<>>
    /\ output' = <<[op |-> "feed_two_source",
                    plan |-> feed_two_source(input.ctx.plan, input.left,
                                             input.right)]>>
    /\ UNCHANGED <<arena, ret, delivered, accepted, readyCount, readyTotal,
                   handedOut, peer, inst, route, input>>

NextFeed == FeedOneSourceCall \/ FeedTwoSourceCall

SpecFeed == InitFeed /\ [][NextFeed]_vars

(***************************************************************************)
(* The cloud side reads a string that is not what marshal wrote: the text  *)
(* was cut, or the encoding tag or the context bytes were changed on the   *)
(* way.                                                                    *)
(***************************************************************************)
Damages ==
    {"none", "empty", "cut_head", "cut_tail", "cut_inner", "tag_swapped",
     "tag_unsupported"}

WithTag(s, encoding) == SubSeq(s, 1, Len(s) - 1) \o <<encoding>>

Damage(s, damage) ==
    IF damage = "empty" THEN <<>>
    ELSE IF damage = "cut_head" THEN Tail(s)
    ELSE IF damage = "cut_tail" THEN SubSeq(s, 1, Len(s) - 1)
    ELSE IF damage = "cut_inner"
      THEN SubSeq(s, 1, Len(s) - 3) \o SubSeq(s, Len(s) - 1, Len(s))
    ELSE IF damage = "tag_swapped"
      THEN WithTag(s, IF s[Len(s)] = "None" THEN "Snappy" ELSE "None")
    ELSE IF damage = "tag_unsupported" THEN WithTag(s, "Lz4")
    ELSE s

InitEnvelope ==
    /\ arena = NoSessions
    /\ ret = NoRet
    /\ delivered = [w \in WindowIds |-> {}]
    /\ accepted = [w \in WindowIds |-> <<>>]
    /\ readyCount = [w \in WindowIds |-> 0]
    /\ readyTotal = [w \in WindowIds |-> 0]
    /\ handedOut = [w \in WindowIds |-> [n \in 1..MaxLen |-> 0]]
    /\ peer = <<>> /\ inst = 1 /\ route = <<>>
    /\ input \in [ctx : Contexts, encoding : {"None", "Snappy"}, damage : Damages]
    /\ output = <<>>

(* ExecutionContext::unmarshal(&s) of the string that arrives *)
UnmarshalArrived ==
    /\ output = <<>>
    /\ LET s == Damage(marshal(input.ctx, input.encoding).value, input.damage)
       IN  output' = <<[op |-> "unmarshal", json |-> ContextOk(s),
                        ctx |-> unmarshal(s)]>>
    /\ UNCHANGED <<arena, ret, delivered, accepted, readyCount, readyTotal,
                   handedOut, peer, inst, route, input>>

NextEnvelope == UnmarshalArrived

SpecEnvelope == InitEnvelope /\ [][NextEnvelope]_vars

(***************************************************************************)
(* Executing the plan.  The engine (datafusion's collect) either gives the *)
(* batches of the plan or fails with an error of its own.                  *)
(***************************************************************************)
EngineResults ==
    { ContextOk(batches) : batches \in {<<>>, <<Batch(Schema1, 1)>>,
                                        <<Batch(Schema1, 1), Batch(Schema1, 2)>>} }
    \cup { [kind |-> "Err", value |-> e] :
             e \in {"Execution error", "Internal error"} }

(* format!("{:?}", self.plan): the operators with what they hold. *)
RECURSIVE PlanDebug(_)
PlanDebug(p) ==
    <<p.execution_plan, "{">>
    \o (IF p.execution_plan = "memory_exec"
          THEN <<"partitions", ToString(Len(p.partitions)), "schema">> \o p.schema
          ELSE <<>>)
    \o (IF Len(p.children) >= 1 THEN PlanDebug(p.children[1]) ELSE <<>>)
    \o (IF Len(p.children) >= 2 THEN PlanDebug(p.children[2]) ELSE <<>>)
    \o <<"}">>

(* SquirtleError::Plan(message) *)
PlanError(message) == [kind |-> "Err", value |-> [error |-> "Plan", message |-> message]]

(* Variant: a failed run gives no batches and no error. *)
executeSwallow(ctx, collected) ==
    IF collected.kind = "Ok" THEN ContextOk(collected.value) ELSE ContextOk(<<>>)

(* ctx.execute(), with the result of collect(self.plan().clone()).await *)
execute(ctx, collected) ==
    IF collected.kind = "Ok" THEN ContextOk(collected.value)
    ELSE PlanError(<<collected.value, ". Failed to execute the plan '">>
                   \o PlanDebug(ctx.plan) \o <<"'">>)

InitExecute ==
    /\ arena = NoSessions
    /\ ret = NoRet
    /\ delivered = [w \in WindowIds |-> {}]
    /\ accepted = [w \in WindowIds |-> <<>>]
    /\ readyCount = [w \in WindowIds |-> 0]
    /\ readyTotal = [w \in WindowIds |-> 0]
    /\ handedOut = [w \in WindowIds |-> [n \in 1..MaxLen |-> 0]]
    /\ peer = <<>> /\ inst = 1 /\ route = <<>>
    /\ input \in [ctx : { ExecutionContext(plan, "test", CloudFunctionNone,
                                           "UnknownEvent") : plan \in Plans },
                  collected : EngineResults]
    /\ output = <<>>

ExecuteCall ==
    /\ output = <<>>
    /\ output' = <<[op |-> "execute", result |-> execute(input.ctx, input.collected)]>>
    /\ UNCHANGED <<arena, ret, delivered, accepted, readyCount, readyTotal,
                   handedOut, peer, inst, route, input>>

NextExecute == ExecuteCall

SpecExecute == InitExecute /\ [][NextExecute]_vars

(***************************************************************************)
(* Comparing execution contexts (assert_eq!(lambda_context, de_json)).     *)
(***************************************************************************)
EqContexts ==
    { ExecutionContext(plan, name, next, datasource) :
        plan \in {MemoryExec(Schema1, <<>>),
                  MemoryExec(Schema1, << <<Batch(Schema1, 0)>> >>),
                  MemoryExec(Schema2, <<>>)},
        name \in {"hello", "test"},
        next \in {CloudFunctionNone, CloudFunction("Solo", "SX72-00", 0)},
        datasource \in DataSources }

InitEq ==
    /\ arena = NoSessions
    /\ ret = NoRet
    /\ delivered = [w \in WindowIds |-> {}]
    /\ accepted = [w \in WindowIds |-> <<>>]
    /\ readyCount = [w \in WindowIds |-> 0]
    /\ readyTotal = [w \in WindowIds |-> 0]
    /\ handedOut = [w \in WindowIds |-> [n \in 1..MaxLen |-> 0]]
    /\ peer = <<>> /\ inst = 1 /\ route = <<>>
    /\ input \in [a : EqContexts, b : EqContexts, c : EqContexts]
    /\ output = <<>>

(* a == a, a == b, b == a, b == c, a == c *)
EqCall ==
    /\ output = <<>>
    /\ output' = <<[op |-> "eq",
                    aa |-> ContextEq(input.a, input.a),
                    ab |-> ContextEq(input.a, input.b),
                    ba |-> ContextEq(input.b, input.a),
                    bc |-> ContextEq(input.b, input.c),
                    ac |-> ContextEq(input.a, input.c)]>>
    /\ UNCHANGED <<arena, ret, delivered, accepted, readyCount, readyTotal,
                   handedOut, peer, inst, route, input>>

NextEq == EqCall

SpecEq == InitEq /\ [][NextEq]_vars

(***************************************************************************)
(* A Bitmap on its own: Bitmap::new(n), then set(i) for indices below n,   *)
(* any number of times.  calls is the history: how often each index was    *)
(* set (counted up to MaxCount).                                           *)
(***************************************************************************)
InitBitmap ==
    /\ arena = NoSessions
    /\ ret = NoRet
    /\ delivered = [w \in WindowIds |-> {}]
    /\ accepted = [w \in WindowIds |-> <<>>]
    /\ readyCount = [w \in WindowIds |-> 0]
    /\ readyTotal = [w \in WindowIds |-> 0]
    /\ handedOut = [w \in WindowIds |-> [n \in 1..MaxLen |-> 0]]
    /\ peer = <<>> /\ inst = 1 /\ route = <<>>
    /\ input \in 1..(MaxLen + 1)
    /\ output = <<[op |-> "new", index |-> 0, bitmap |-> BitmapNew(input),
                   calls |-> [i \in 0..(input - 1) |-> 0]]>>

(* bitmap.set(i) *)
BitmapSetCall(i) ==
    /\ BitmapInRange(output[1].bitmap, i)
    /\ output' = <<[op |-> "set", index |-> i,
                    bitmap |-> BitmapSet(output[1].bitmap, i),
                    calls |-> [output[1].calls EXCEPT
                                 ![i] = Min(@ + 1, MaxCount)]]>>
    /\ UNCHANGED <<arena, ret, delivered, accepted, readyCount, readyTotal,
                   handedOut, peer, inst, route, input>>

NextBitmap == \E i \in 0..MaxLen : BitmapSetCall(i)

SpecBitmap == InitBitmap /\ [][NextBitmap]_vars

(***************************************************************************)
(* One window fed with payloads as they come off the wire: the sequence    *)
(* number is any number from 0 to one past the sequence length, nothing    *)
(* has checked it against 1..seq_len.                                      *)
(***************************************************************************)
RawPayloads ==
    { to_payload(<<RecordBatch(ObservedWindow[1], ObservedWindow[2], x[2], 1)>>,
                 <<>>, Uuid(ObservedWindow[1], x[2], x[1]), ObservedWindow[2]) :
        x \in (1..JoinSeqLen) \X (0..(JoinSeqLen + 1)) }

NextRaw ==
    \/ \E payload \in RawPayloads : Collect(payload)
    \/ TakeBatches(ObservedWindow)
    \/ IsComplete(ObservedWindow)

SpecRaw == Init /\ [][NextRaw]_vars

(***************************************************************************)
(* One window under at-least-once delivery: the producer cut the window    *)
(* into input fragments, all carrying that sequence length.  A fragment    *)
(* on its way is lost or reaches collect, in any order and any number of   *)
(* times; the caller takes the batches only after Ready.  output records   *)
(* whether a fragment was lost and whether one arrived again.  Every       *)
(* fragment keeps being sent until it has arrived.                         *)
(***************************************************************************)
FragmentOf(seq_num, seq_len) ==
    to_payload(<<RecordBatch(ObservedWindow[1], ObservedWindow[2], seq_num, 1)>>,
               <<>>, Uuid(ObservedWindow[1], seq_num, seq_len), ObservedWindow[2])

InitLive ==
    /\ arena = NoSessions
    /\ ret = NoRet
    /\ delivered = [w \in WindowIds |-> {}]
    /\ accepted = [w \in WindowIds |-> <<>>]
    /\ readyCount = [w \in WindowIds |-> 0]
    /\ readyTotal = [w \in WindowIds |-> 0]
    /\ handedOut = [w \in WindowIds |-> [n \in 1..MaxLen |-> 0]]
    /\ peer = <<>> /\ inst = 1 /\ route = <<>>
    /\ input \in 1..MaxSeqLen
    /\ output = [lost |-> FALSE, again |-> FALSE]

Deliver(seq_num) ==
    /\ Alive
    /\ seq_num <= input
    /\ CollectCall(FragmentOf(seq_num, input))
    /\ output' = [output EXCEPT !.again = @ \/ ret'.status = Processed]
    /\ UNCHANGED <<readyTotal, handedOut, peer, inst, route, input>>

Lose(seq_num) ==
    /\ Alive
    /\ seq_num <= input
    /\ output' = [output EXCEPT !.lost = TRUE]
    /\ UNCHANGED <<arena, ret, delivered, accepted, readyCount, readyTotal,
                   handedOut, peer, inst, route, input>>

TakeAfterReady ==
    /\ readyCount[ObservedWindow] >= 1
    /\ TakeBatches(ObservedWindow)

NextLive ==
    \/ \E seq_num \in 1..MaxSeqLen : Deliver(seq_num)
    \/ \E seq_num \in 1..MaxSeqLen : Lose(seq_num)
    \/ IsComplete(ObservedWindow)
    \/ TakeAfterReady

FairDelivery == \A seq_num \in 1..MaxSeqLen : WF_vars(Deliver(seq_num))

SpecLive == InitLive /\ [][NextLive]_vars /\ FairDelivery

(***************************************************************************)
(* The YSB source function.  The payload names the data source: its kind,  *)
(* its window and the numbers read from its configuration (threads and     *)
(* events-per-second as get_as_or returned them).  The generator and the   *)
(* window tasks are collaborators that succeed or fail with an error.      *)
(***************************************************************************)
MaxRate == 3

ConfigValues == (0 - 1)..MaxRate

Windows ==
    {[kind |-> "Tumbling", schedule |-> "Seconds"],
     [kind |-> "Tumbling", schedule |-> "Element"],
     [kind |-> "Sliding", schedule |-> "Seconds"]}

YSBPayloads ==
    [datasource : {"YSBEvent", "NEXMarkEvent"}, window : Windows,
     threads : ConfigValues, eps : ConfigValues]

(* i32 division: the quotient is rounded towards zero. *)
IntDiv(a, b) ==
    IF a >= 0 /\ b > 0 THEN a \div b
    ELSE IF a < 0 /\ b < 0 THEN (0 - a) \div (0 - b)
    ELSE IF a < 0 THEN 0 - ((0 - a) \div b)
    ELSE 0 - (a \div (0 - b))

(* What a call of the handler came to: how it ended, the configuration the *)
(* generator was called with (<<>>: not called) and whether the window     *)
(* tasks were started.                                                     *)
HandlerResult(kind, by, generated, scheduled) ==
    [kind |-> kind, by |-> by, generated |-> generated, scheduled |-> scheduled]

(* lines 45-48: the configuration after the two inserts. *)
Rewritten(gen, eps) ==
    <<[threads |-> ToString(1), eps |-> ToString(IntDiv(eps, gen))]>>

(* Variant: the quotient is not asserted to be positive. *)
handlerNoAssert(payload, events, tasks) ==
    IF payload.datasource # "YSBEvent"
      THEN HandlerResult("Panic", "unreachable", <<>>, FALSE)
    ELSE IF payload.threads = 0
      THEN HandlerResult("Panic", "divide by zero", <<>>, FALSE)
    ELSE IF ~events
      THEN HandlerResult("Err", "generate_data",
                         Rewritten(payload.threads, payload.eps), FALSE)
    ELSE IF payload.window # [kind |-> "Tumbling", schedule |-> "Seconds"]
      THEN HandlerResult("Panic", "unreachable",
                         Rewritten(payload.threads, payload.eps), FALSE)
    ELSE HandlerResult(IF tasks THEN "Ok" ELSE "Err",
                       IF tasks THEN "" ELSE "tumbling_window_tasks",
                       Rewritten(payload.threads, payload.eps), TRUE)

(* handler(ctx, payload) *)
handler(payload, events, tasks) ==
    IF payload.datasource # "YSBEvent"
      THEN HandlerResult("Panic", "unreachable", <<>>, FALSE)
    ELSE IF payload.threads = 0
      THEN HandlerResult("Panic", "divide by zero", <<>>, FALSE)
    ELSE IF ~(IntDiv(payload.eps, payload.threads) > 0)
      THEN HandlerResult("Panic", "assert", <<>>, FALSE)
    ELSE IF ~events
      THEN HandlerResult("Err", "generate_data",
                         Rewritten(payload.threads, payload.eps), FALSE)
    ELSE IF payload.window # [kind |-> "Tumbling", schedule |-> "Seconds"]
      THEN HandlerResult("Panic", "unreachable",
                         Rewritten(payload.threads, payload.eps), FALSE)
    ELSE HandlerResult(IF tasks THEN "Ok" ELSE "Err",
                       IF tasks THEN "" ELSE "tumbling_window_tasks",
                       Rewritten(payload.threads, payload.eps), TRUE)

InitHandler ==
    /\ arena = NoSessions
    /\ ret = NoRet
    /\ delivered = [w \in WindowIds |-> {}]
    /\ accepted = [w \in WindowIds |-> <<>>]
    /\ readyCount = [w \in WindowIds |-> 0]
    /\ readyTotal = [w \in WindowIds |-> 0]
    /\ handedOut = [w \in WindowIds |-> [n \in 1..MaxLen |-> 0]]
    /\ peer = <<>> /\ inst = 1 /\ route = <<>>
    /\ input \in [payload : YSBPayloads, events : BOOLEAN, tasks : BOOLEAN]
    /\ output = <<>>

HandlerCall ==
    /\ output = <<>>
    /\ output' = <<[op |-> "handler",
                    result |-> handler(input.payload, input.events, input.tasks)]>>
    /\ UNCHANGED <<arena, ret, delivered, accepted, readyCount, readyTotal,
                   handedOut, peer, inst, route, input>>

NextHandler == HandlerCall

SpecHandler == InitHandler /\ [][NextHandler]_vars

(***************************************************************************)
(* Properties.                                                             *)
(***************************************************************************)
NoBatches == << <<>>, <<>> >>

(* The step is the call collect(payload). *)
IsCollect(payload) == ret'.op = "collect" /\ ret'.payload = payload

(* The step is the call op(&window_id). *)
IsCall(op, window_id) == ret'.op = op /\ ret'.window_id = window_id

(* The groups of one relation the accepted payloads carry, in arrival order. *)
AcceptedGroups(window_id, rel) ==
    [k \in 1..Len(accepted[window_id]) |->
       to_record_batch(accepted[window_id][k])[rel]]

(* C1: while the fragments delivered to a window agree on its sequence     *)
(* length N and it is not taken, a collect call returns Processed when its *)
(* sequence number was delivered before, Ready when it is the N-th         *)
(* distinct sequence number, NotReady otherwise; Ready has been returned   *)
(* once when all N are delivered and never before.                         *)
C1_ReadyExactlyOnce ==
    [][\A payload \in Payloads :
         LET window_id == get_window_id(payload)
             uuid == payload.uuid
             all == Cardinality(delivered'[window_id]) = uuid.seq_len
         IN  (/\ IsCollect(payload)
              /\ window_id \in DOMAIN arena => arena[window_id].size = uuid.seq_len)
             => /\ ret'.status =
                     IF uuid.seq_num \in delivered[window_id] THEN Processed
                     ELSE IF all THEN Ready ELSE NotReady
                /\ readyCount'[window_id] = IF all THEN 1 ELSE 0]_vars

(* A duplicate arrives after the window completed, its fragments having    *)
(* arrived out of sequence-number order.                                   *)
C1_Witness ==
    \E window_id \in DOMAIN arena :
        /\ arena[window_id].size = MaxSeqLen
        /\ ret.op = "collect" /\ ret.window_id = window_id
        /\ ret.status = Processed
        /\ readyCount[window_id] = 1
        /\ accepted[window_id][1].uuid.seq_num = MaxSeqLen

(* C2: over the whole run of one window, with redelivery after             *)
(* take_batches, Ready is returned at most once and no fragment's batches  *)
(* are handed out by take_batches more than once.                          *)
C2_ExactlyOncePerFragment ==
    \A window_id \in WindowIds :
        /\ readyTotal[window_id] <= 1
        /\ \A n \in 1..MaxLen : handedOut[window_id][n] <= 1

C4_TakeRemoves ==
    [][\A window_id \in WindowIds :
         IsCall("take_batches", window_id)
         => /\ window_id \notin DOMAIN arena'
            /\ (ret.op = "take_batches" /\ ret.window_id = window_id)
                 => ret'.batches = NoBatches]_vars

(* The second of two take_batches calls, the first of which found a session. *)
C4_Witness ==
    /\ ret.op = "take_batches" /\ ret.again
    /\ ret.batches = NoBatches
    /\ ret.window_id \notin DOMAIN arena

(* C5: collect of a fragment whose bit is set in the live session returns  *)
(* Processed and leaves the arena as it was.                               *)
C5_DuplicateIsProcessed ==
    [][\A payload \in Payloads :
         LET window_id == get_window_id(payload)
         IN  (/\ IsCollect(payload)
              /\ window_id \in DOMAIN arena
              /\ arena[window_id].size = payload.uuid.seq_len
              /\ BitmapIsSet(arena[window_id].bitmap, payload.uuid.seq_num))
             => ret'.status = Processed /\ arena' = arena]_vars

(* A duplicate arrived at a window that is still collecting. *)
C5_Witness ==
    /\ ret.op = "collect" /\ ret.status = Processed
    /\ ret.window_id \in DOMAIN arena
    /\ Len(arena[ret.window_id].r1_records) < arena[ret.window_id].size

(* C6: for a window without a session take_batches returns two empty       *)
(* sequences, is_complete false and get_bitmap none; none of them fails or *)
(* changes the arena.                                                      *)
C6_UnknownWindow ==
    [][\A window_id \in WindowIds :
         window_id \notin DOMAIN arena
         => /\ IsCall("take_batches", window_id)
                 => ret'.batches = NoBatches /\ arena' = arena /\ ret'.status # Panic
            /\ IsCall("is_complete", window_id)
                 => ret'.flag = FALSE /\ arena' = arena /\ ret'.status # Panic
            /\ IsCall("get_bitmap", window_id)
                 => ret'.bitmap = <<>> /\ arena' = arena /\ ret'.status # Panic]_vars

(* is_complete was asked of an unknown window while another one is live. *)
C6_Witness ==
    /\ ret.op = "is_complete" /\ ~ret.had /\ ~ret.flag
    /\ DOMAIN arena # {}

(* C7: collect of a fragment whose sequence length differs from the live   *)
(* session's size fails (no status) and changes nothing.                   *)
C7_SeqLenMismatchPanics ==
    [][\A payload \in Payloads :
         LET window_id == get_window_id(payload)
         IN  (/\ IsCollect(payload)
              /\ window_id \in DOMAIN arena
              /\ arena[window_id].size # payload.uuid.seq_len)
             => /\ ret'.status = Panic
                /\ arena' = arena
                /\ accepted' = accepted]_vars

(* A call failed on a live session of another size. *)
C7_Witness ==
    /\ ret.op = "collect" /\ ret.status = Panic /\ ret.had
    /\ ret.window_id \in DOMAIN arena
    /\ arena[ret.window_id].size # ret.payload.uuid.seq_len

(* C8: every live session has as many groups of relation one as of         *)
(* relation two.                                                           *)
C8_RelationsParallel ==
    \A window_id \in DOMAIN arena :
        Len(arena[window_id].r1_records) = Len(arena[window_id].r2_records)

(* A single-input window with several groups, the second relation's empty. *)
C8_Witness ==
    \E window_id \in DOMAIN arena :
        /\ Len(arena[window_id].r1_records) = MaxSeqLen
        /\ Len(arena[window_id].r2_records) = MaxSeqLen
        /\ arena[window_id].r2_records[MaxSeqLen] = <<>>

(* C9: in every live session bit i is set iff a fragment with sequence     *)
(* number i was accepted, that is, its batches are among the session's     *)
(* groups.                                                                 *)
C9_BitmapMatchesAccepted ==
    \A window_id \in DOMAIN arena :
        LET window == arena[window_id]
        IN  /\ window.r1_records = AcceptedGroups(window_id, 1)
            /\ window.r2_records = AcceptedGroups(window_id, 2)
            /\ \A i \in DOMAIN window.bitmap :
                 BitmapIsSet(window.bitmap, i)
                 <=> \E k \in DOMAIN accepted[window_id] :
                        accepted[window_id][k].uuid.seq_num = i

(* A session with the last bit set and bit 1 clear. *)
C9_Witness ==
    \E window_id \in DOMAIN arena :
        /\ arena[window_id].size = MaxSeqLen
        /\ Len(arena[window_id].r1_records) = 2
        /\ BitmapIsSet(arena[window_id].bitmap, MaxSeqLen)
        /\ ~BitmapIsSet(arena[window_id].bitmap, 1)

(* C10: collect for a window without a session inserts a session of the    *)
(* fragment's sequence length holding the fragment's one group per         *)
(* relation and only its bit, leaves the other sessions alone, and returns *)
(* Ready when the sequence length is 1 and NotReady otherwise.             *)
C10_FirstFragment ==
    [][\A payload \in Payloads :
         LET window_id == get_window_id(payload)
             uuid == payload.uuid
         IN  (IsCollect(payload) /\ window_id \notin DOMAIN arena)
             => /\ DOMAIN arena' = DOMAIN arena \cup {window_id}
                /\ arena'[window_id] =
                     WindowSession(uuid.seq_len,
                                   <<to_record_batch(payload)[1]>>,
                                   <<to_record_batch(payload)[2]>>,
                                   [i \in 0..uuid.seq_len |-> i = uuid.seq_num])
                /\ \A other \in DOMAIN arena : arena'[other] = arena[other]
                /\ ret'.status = IF uuid.seq_len = 1 THEN Ready ELSE NotReady]_vars

(* The only fragment of a window created its session and completed it. *)
C10_Witness ==
    /\ ret.op = "collect" /\ ~ret.had /\ ret.status = Ready
    /\ ret.window_id \in DOMAIN arena
    /\ arena[ret.window_id].size = 1

(* C11: is_complete and get_bitmap, on a present or an absent window,     *)
(* leave the arena as it was: no session is changed, created or removed.   *)
C11_ProbesReadOnly ==
    [][\A window_id \in WindowIds :
         (IsCall("is_complete", window_id) \/ IsCall("get_bitmap", window_id))
         => arena' = arena]_vars

(* get_bitmap returned the bitmap of a live session, which is still there. *)
C11_Witness ==
    /\ ret.op = "get_bitmap" /\ ret.had
    /\ ret.window_id \in DOMAIN arena
    /\ ret.bitmap = <<arena[ret.window_id].bitmap>>

(* C12: a session leaves the arena only by a take_batches call for its     *)
(* window: every other call, on any window and whatever it returns, keeps  *)
(* every live session in the map.                                          *)
C12_OnlyTakeRemoves ==
    [][\A window_id \in DOMAIN arena :
         window_id \notin DOMAIN arena' => IsCall("take_batches", window_id)]_vars

(* A complete session is still there after a collect on another window. *)
C12_Witness ==
    \E window_id \in DOMAIN arena :
        /\ readyCount[window_id] = 1
        /\ ret.op = "collect" /\ ret.window_id # window_id
        /\ ret.status = Ready

C17_SchemaOfBothRelations ==
    (output # <<>> /\ HasFirstBatch(input.r1_records))
    => output[1] =
         SchemaOk(BatchSchema(input.r1_records[1][1]),
                  IF HasFirstBatch(input.r2_records)
                    THEN <<BatchSchema(input.r2_records[1][1])>>
                    ELSE <<>>)

(* C18: schema of a session whose relation one has no group, or an empty   *)
(* first group, returns an error value: no panic and no schema.            *)
C18_SchemaOfEmptyWindow ==
    (output # <<>> /\ ~HasFirstBatch(input.r1_records))
    => output[1] = SchemaErr

(* schema was asked of a session whose first group of relation one is      *)
(* empty while relation two has batches.                                   *)
C18_Witness ==
    /\ output # <<>> /\ output[1].kind = "Err"
    /\ input.r1_records # <<>> /\ input.r1_records[1] = <<>>
    /\ HasFirstBatch(input.r2_records)

(* The map with at most the session of one window. *)
Only(map, window_id) == [k \in DOMAIN map \cap {window_id} |-> map[k]]

(* From this arena, collect calls for different windows give the same      *)
(* statuses and the same arena in both orders, and so do a collect and a   *)
(* take_batches for different windows.                                     *)
Commute(map) ==
    /\ \A p, q \in KeyPayloads :
         get_window_id(p) # get_window_id(q)
         => LET p1 == collect(map, p)
                q2 == collect(p1.arena, q)
                q1 == collect(map, q)
                p2 == collect(q1.arena, p)
            IN  /\ p1.status = p2.status /\ q1.status = q2.status
                /\ q2.arena = p2.arena
    /\ \A p \in KeyPayloads : \A window_id \in KeyWindowIds \ {get_window_id(p)} :
         LET p1 == collect(map, p)
             t2 == take_batches(p1.arena, window_id)
             t1 == take_batches(map, window_id)
             p2 == collect(t1.arena, p)
         IN  /\ p1.status = p2.status /\ t1.batches = t2.batches
             /\ t2.arena = p2.arena

(* C14: a collect or take_batches for one window leaves every other        *)
(* window (another query id, or another shuffle id) as it was, present or  *)
(* absent; the status of a collect is the one it has on an arena holding   *)
(* its own window's session only; calls for different windows commute.     *)
C14_WindowsIndependent ==
    /\ [][\A a \in KeyWindowIds :
            (ret'.window_id = a /\ ret'.op \in {"collect", "take_batches"})
            => /\ \A b \in KeyWindowIds \ {a} :
                    /\ b \in DOMAIN arena' <=> b \in DOMAIN arena
                    /\ b \in DOMAIN arena => arena'[b] = arena[b]
               /\ ret'.op = "collect"
                    => ret'.status = collect(Only(arena, a), ret'.payload).status
      ]_vars
    /\ []Commute(arena)

(* Three live windows: a complete one of the other query, and two          *)
(* collecting ones that differ in the shuffle id only.                     *)
C14_Witness ==
    /\ DOMAIN arena = KeyWindowIds
    /\ readyCount[<<"q2", 0>>] = 1
    /\ arena[<<"q1", 0>>].size = JoinSeqLen
    /\ Len(arena[<<"q1", 0>>].r1_records) < arena[<<"q1", 0>>].size
    /\ Len(arena[<<"q1", 1>>].r1_records) < arena[<<"q1", 1>>].size
    /\ ret.op = "collect" /\ ret.window_id = <<"q1", 1>> /\ ret.status = NotReady

(* C15: with the fragments of one window split between two instances so   *)
(* that each is sent a proper subset of the sequence numbers, in any order *)
(* and with duplicates, no collect on either instance returns Ready and    *)
(* is_complete is false on both.                                           *)
C15_SplitNeverReady ==
    /\ ret.op = "collect" => ret.status # Ready
    /\ ret.op = "is_complete" => ~ret.flag
    /\ ~is_complete(arena, ObservedWindow)
    /\ ~is_complete(peer, ObservedWindow)

(* Every fragment has been collected by the instance it is routed to, and  *)
(* the last call redelivered one of them.                                  *)
C15_Witness ==
    /\ ObservedWindow \in DOMAIN arena /\ ObservedWindow \in DOMAIN peer
    /\ Len(arena[ObservedWindow].r1_records) + Len(peer[ObservedWindow].r1_records)
         = Len(route)
    /\ Len(accepted[ObservedWindow]) = Len(route)
    /\ Cardinality(delivered[ObservedWindow]) = Len(route)
    /\ Len(route) = MaxSeqLen
    /\ ret.op = "collect" /\ ret.status = Processed

(* C16: for every context and for the encodings None and Snappy, marshal   *)
(* gives a string and unmarshal of that string gives a context equal to    *)
(* the first: equal name, next and datasource, and the same plan text.     *)
C16_MarshalRoundTrip ==
    (output # <<>> /\ input.encoding \in {"None", "Snappy"})
    => /\ output[1].json.kind = "Ok"
       /\ output[1].op = "unmarshal"
            => /\ output[1].ctx.kind = "Ok"
               /\ ContextEq(output[1].ctx.value, input.ctx)

(* A context with a join over a leaf that holds batches and a Chorus next  *)
(* call has gone through Snappy and back, and the leaf came back empty.    *)
C16_Witness ==
    /\ output # <<>> /\ output[1].op = "unmarshal"
    /\ input.encoding = "Snappy"
    /\ input.ctx.next.kind = "Chorus"
    /\ input.ctx.plan.execution_plan = "hash_join_exec"
    /\ input.ctx.plan.children[2].partitions # <<>>
    /\ output[1].ctx.kind = "Ok"
    /\ output[1].ctx.value.plan.children[2].partitions = <<>>
    /\ output[1].ctx.value # input.ctx

(* The paths of the nodes and of the leaves of a plan. *)
RECURSIVE NodePaths(_)
NodePaths(plan) ==
    {<<>>} \cup UNION { { <<i>> \o path : path \in NodePaths(plan.children[i]) } :
                        i \in 1..Len(plan.children) }

LeafPaths(plan) == { path \in NodePaths(plan) : NodeAt(plan, path).children = <<>> }

(* Breadth-first order: by depth, then from left to right. *)
BreadthFirstBefore(p, q) ==
    \/ Len(p) < Len(q)
    \/ /\ Len(p) = Len(q)
       /\ \E i \in 1..Len(p) : p[i] < q[i] /\ \A j \in 1..(i - 1) : p[j] = q[j]

FirstLeaf(plan) ==
    CHOOSE p \in LeafPaths(plan) :
        \A q \in LeafPaths(plan) \ {p} : BreadthFirstBefore(p, q)

(* A node without its subtrees. *)
Shallow(node) == [node EXCEPT !.children = Len(node.children)]

(* C19: feed_one_source puts the batches in the first leaf in breadth-     *)
(* first order from the root; every other node, leaf or not, is as it was. *)
C19_FeedOneFirstLeaf ==
    (output # <<>> /\ output[1].op = "feed_one_source")
    => LET old == input.ctx.plan
           first == FirstLeaf(old)
       IN  /\ output[1].plan.kind = "Ok"
           /\ NodePaths(output[1].plan.value) = NodePaths(old)
           /\ \A path \in NodePaths(old) :
                Shallow(NodeAt(output[1].plan.value, path)) =
                  IF path = first
                    THEN [Shallow(NodeAt(old, path)) EXCEPT !.partitions = input.left]
                    ELSE Shallow(NodeAt(old, path))

(* A join whose left leaf lies deeper than its right leaf: the right leaf  *)
(* is fed, and the left one keeps the batches it had.                      *)
C19_Witness ==
    /\ output # <<>> /\ output[1].op = "feed_one_source"
    /\ input.ctx.plan.execution_plan = "hash_join_exec"
    /\ FirstLeaf(input.ctx.plan) = <<2>>
    /\ LeafPaths(input.ctx.plan) = {<<1, 1>>, <<2>>}
    /\ NodeAt(input.ctx.plan, <<1, 1>>).partitions # <<>>
    /\ input.left # <<>> /\ input.left # NodeAt(input.ctx.plan, <<2>>).partitions
    /\ NodeAt(output[1].plan.value, <<2>>).partitions = input.left
    /\ NodeAt(output[1].plan.value, <<1, 1>>).partitions # input.left

(* The input has a first batch: partition[0][0]. *)
HasSchema(partition, sch) ==
    partition # <<>> /\ partition[1] # <<>> /\ partition[1][1].schema = sch

(* C20: on a plan with two leaves and with two inputs of different         *)
(* schemas, feed_two_source leaves each leaf with the input of the leaf's  *)
(* schema, whichever leaf comes first and whichever input is left.         *)
C20_FeedTwoBySchema ==
    (/\ output # <<>> /\ output[1].op = "feed_two_source"
     /\ Cardinality(LeafPaths(input.ctx.plan)) = 2
     /\ \E sch1, sch2 \in Schemas :
          /\ sch1 # sch2
          /\ HasSchema(input.left, sch1) /\ HasSchema(input.right, sch2)
          /\ { NodeAt(input.ctx.plan, path).schema :
                 path \in LeafPaths(input.ctx.plan) } = {sch1, sch2})
    => /\ output[1].plan.kind = "Ok"
       /\ \A path \in LeafPaths(input.ctx.plan) :
            \A partition \in {input.left, input.right} :
                HasSchema(partition, NodeAt(input.ctx.plan, path).schema)
                => NodeAt(output[1].plan.value, path).partitions = partition

(* The leaf that comes first takes the right input and the second leaf the *)
(* left input.                                                             *)
C20_Witness ==
    /\ output # <<>> /\ output[1].op = "feed_two_source"
    /\ output[1].plan.kind = "Ok"
    /\ input.ctx.plan.execution_plan = "hash_join_exec"
    /\ LeafPaths(input.ctx.plan) = {<<1, 1>>, <<2>>}
    /\ HasSchema(input.left, Schema1) /\ HasSchema(input.right, Schema2)
    /\ NodeAt(input.ctx.plan, <<2>>).schema = Schema2
    /\ NodeAt(input.ctx.plan, <<1, 1>>).schema = Schema1
    /\ NodeAt(output[1].plan.value, <<2>>).partitions = input.right
    /\ NodeAt(output[1].plan.value, <<1, 1>>).partitions = input.left
    /\ Len(input.left[1]) # Len(input.right[1])

(* C21: unmarshal returns a context only when the envelope parses, its tag *)
(* is None or Snappy and the context bytes, decoded with the scheme of the *)
(* tag, parse; a damaged string makes it fail; and the tag marshal wrote   *)
(* is the encoding marshal was called with.                                *)
C21_UnmarshalFailsOnBadInput ==
    output # <<>>
    => LET env == EnvironmentFromStr(output[1].json.value)
       IN  /\ input.damage # "none" => output[1].ctx = ContextPanic
           /\ input.damage = "none"
                => /\ env.ok /\ env.value.encoding = input.encoding
                   /\ output[1].ctx.kind = "Ok"
           /\ output[1].ctx.kind = "Ok"
                => /\ env.ok /\ env.value.encoding \in {"None", "Snappy"}
                   /\ LET bytes == IF env.value.encoding = "Snappy"
                                     THEN decoder(env.value.context)
                                     ELSE Parsed(env.value.context, <<>>)
                      IN  /\ bytes.ok
                          /\ ContextFromSlice(bytes.value)
                               = Parsed(output[1].ctx.value, <<>>)

(* An envelope that parses and whose context bytes are sound, but with a   *)
(* tag that is none of the two, was refused.                               *)
C21_Witness ==
    /\ output # <<>> /\ input.damage = "tag_unsupported"
    /\ EnvironmentFromStr(output[1].json.value).ok
    /\ ContextFromSlice(EnvironmentFromStr(output[1].json.value).value.context).ok
    /\ output[1].ctx = ContextPanic

(* C22: marshal with an encoding other than None and Snappy panics: there  *)
(* is no envelope string, with that or with any other scheme, and nothing  *)
(* to unmarshal.                                                           *)
C22_MarshalUnsupportedAborts ==
    (output # <<>> /\ input.encoding \notin {"None", "Snappy"})
    => /\ output[1].op = "marshal"
       /\ output[1].json = ContextPanic
       /\ ~ENABLED UnmarshalCall

(* marshal was called with the unsupported scheme on a context that the    *)
(* two supported schemes marshal.                                          *)
C22_Witness ==
    /\ output # <<>> /\ input.encoding = "Lz4"
    /\ output[1].op = "marshal" /\ output[1].json.kind = "Panic"
    /\ marshal(input.ctx, "None").kind = "Ok"
    /\ marshal(input.ctx, "Snappy").kind = "Ok"

(* part occurs in text as a run of consecutive tokens *)
Contains(text, part) ==
    \E i \in 1..(Len(text) - Len(part) + 1) :
        SubSeq(text, i, i + Len(part) - 1) = part

(* C23: execute gives the batches of the plan when the engine succeeds;    *)
(* when the engine fails it gives an error of the Plan kind whose message  *)
(* holds the engine's error and the text of the plan, never a success.     *)
C23_ExecuteWrapsFailure ==
    output # <<>>
    => /\ input.collected.kind = "Ok"
            => output[1].result = ContextOk(input.collected.value)
       /\ input.collected.kind = "Err"
            => /\ output[1].result.kind = "Err"
               /\ output[1].result.value.error = "Plan"
               /\ Contains(output[1].result.value.message, <<input.collected.value>>)
               /\ Contains(output[1].result.value.message, PlanDebug(input.ctx.plan))

(* The engine failed on a join plan whose leaves hold batches. *)
C23_Witness ==
    /\ output # <<>> /\ input.collected.kind = "Err"
    /\ input.ctx.plan.execution_plan = "hash_join_exec"
    /\ input.ctx.plan.children[2].partitions # <<>>
    /\ output[1].result.kind = "Err"
    /\ Len(output[1].result.value.message) > Len(PlanDebug(input.ctx.plan)) + 1

(* C24: two contexts are equal exactly when name, next and datasource are  *)
(* equal and the plans serialize to the same text; the relation is         *)
(* reflexive, symmetric and transitive.                                    *)
C24_ContextEquality ==
    output # <<>>
    => /\ output[1].ab <=> /\ input.a.name = input.b.name
                           /\ input.a.next = input.b.next
                           /\ input.a.datasource = input.b.datasource
                           /\ PlanToString(input.a.plan) = PlanToString(input.b.plan)
       /\ output[1].aa
       /\ output[1].ab <=> output[1].ba
       /\ (output[1].ab /\ output[1].bc) => output[1].ac

(* Three contexts, no two the same value: the first two are equal (their   *)
(* plans differ in the batches of the leaf only), the third is not equal   *)
(* to them.                                                                *)
C24_Witness ==
    /\ output # <<>>
    /\ input.a # input.b /\ output[1].ab /\ output[1].ba
    /\ input.a.plan.partitions # input.b.plan.partitions
    /\ ~output[1].bc /\ ~output[1].ac
    /\ input.c.name = input.a.name /\ input.c.plan = input.a.plan

(* C25: a new bitmap of capacity n has every index below n clear; set(i)   *)
(* makes is_set(i) true and changes no other bit; a repeated set(i) leaves *)
(* the bitmap as it is.                                                    *)
C25_BitmapSetIsSet ==
    /\ [](/\ DOMAIN output[1].bitmap = 0..(input - 1)
          /\ \A i \in 0..(input - 1) :
               BitmapIsSet(output[1].bitmap, i) <=> output[1].calls[i] > 0)
    /\ [][/\ BitmapIsSet(output[1]'.bitmap, output[1]'.index)
          /\ \A j \in (0..(input - 1)) \ {output[1]'.index} :
               BitmapIsSet(output[1]'.bitmap, j) <=> BitmapIsSet(output[1].bitmap, j)
          /\ BitmapIsSet(output[1].bitmap, output[1]'.index)
               => output[1]'.bitmap = output[1].bitmap]_vars

(* An index was set again while another index is set and the others are   *)
(* clear.                                                                  *)
C25_Witness ==
    /\ output[1].op = "set" /\ input = MaxLen + 1
    /\ output[1].index = input - 1
    /\ output[1].calls[output[1].index] = MaxCount
    /\ output[1].calls[1] = 1
    /\ \A i \in 0..(input - 1) : output[1].calls[i] > 0 => i \in {1, input - 1}
    /\ BitmapIsSet(output[1].bitmap, output[1].index)
    /\ ~BitmapIsSet(output[1].bitmap, 0)

(* C26: a collect for a sequence number whose bit is clear, on a live      *)
(* session of the fragment's sequence length, appends one group to each    *)
(* relation, sets that bit and no other, and returns Ready when the number *)
(* of groups is then the session's size and NotReady otherwise.            *)
C26_MergeNewFragment ==
    [][\A payload \in Payloads :
         LET window_id == get_window_id(payload)
             uuid == payload.uuid
         IN  (/\ IsCollect(payload)
              /\ window_id \in DOMAIN arena
              /\ arena[window_id].size = uuid.seq_len
              /\ ~BitmapIsSet(arena[window_id].bitmap, uuid.seq_num))
             => /\ window_id \in DOMAIN arena'
                /\ arena'[window_id].size = arena[window_id].size
                /\ arena'[window_id].r1_records =
                     Append(arena[window_id].r1_records, payload.data)
                /\ arena'[window_id].r2_records =
                     Append(arena[window_id].r2_records, payload.data2)
                /\ arena'[window_id].bitmap =
                     [i \in DOMAIN arena[window_id].bitmap |->
                        i = uuid.seq_num \/ arena[window_id].bitmap[i]]
                /\ ret'.status =
                     IF Len(arena'[window_id].r1_records) = arena[window_id].size
                       THEN Ready ELSE NotReady]_vars

(* The second of MaxSeqLen fragments was merged, the highest number first  *)
(* or second: the window is still collecting.                              *)
C26_Witness ==
    /\ ret.op = "collect" /\ ret.had /\ ret.status = NotReady
    /\ ret.window_id \in DOMAIN arena
    /\ arena[ret.window_id].size = MaxSeqLen
    /\ Len(arena[ret.window_id].r1_records) = 2
    /\ BitmapIsSet(arena[ret.window_id].bitmap, MaxSeqLen)

C28_SizeAndCapacityFixed ==
    /\ [](\A window_id \in DOMAIN arena :
            DOMAIN arena[window_id].bitmap = 0..arena[window_id].size)
    /\ [][\A window_id \in DOMAIN arena \cap DOMAIN arena' :
            /\ arena'[window_id].size = arena[window_id].size
            /\ DOMAIN arena'[window_id].bitmap = DOMAIN arena[window_id].bitmap]_vars

(* A fragment with another sequence length came to a live session, which   *)
(* kept its size.                                                          *)
C28_Witness ==
    /\ ret.op = "collect" /\ ret.status = Panic
    /\ ret.window_id \in DOMAIN arena
    /\ ret.payload.uuid.seq_len > arena[ret.window_id].size
    /\ DOMAIN arena[ret.window_id].bitmap = 0..arena[ret.window_id].size
    /\ Len(arena[ret.window_id].r1_records) >= 1

(* C29: bit 0 of every session's bitmap is clear and every accepted        *)
(* fragment has a sequence number in 1..seq_len: collect accepts no other. *)
C29_OnlyNumberedFragments ==
    \A window_id \in DOMAIN arena :
        /\ ~BitmapIsSet(arena[window_id].bitmap, 0)
        /\ \A k \in DOMAIN accepted[window_id] :
             accepted[window_id][k].uuid.seq_num
               \in 1..accepted[window_id][k].uuid.seq_len

(* The bits that are set. *)
BitsSet(bitmap) == { i \in DOMAIN bitmap : BitmapIsSet(bitmap, i) }

(* C30: every live session has at least one group of relation one and at   *)
(* most as many as its size, and as many as there are bits set.            *)
C30_GroupsCountBits ==
    \A window_id \in DOMAIN arena :
        /\ Len(arena[window_id].r1_records) >= 1
        /\ Len(arena[window_id].r1_records) <= arena[window_id].size
        /\ Len(arena[window_id].r1_records)
             = Cardinality(BitsSet(arena[window_id].bitmap))

(* C31: is_complete of a window is true exactly when a collect of the      *)
(* window has returned Ready and take_batches of the window has not been   *)
(* called since; the probe returns that same flag.                         *)
C31_IsCompleteAgreesWithReady ==
    /\ \A window_id \in WindowIds :
         is_complete(arena, window_id) <=> readyCount[window_id] >= 1
    /\ ret.op = "is_complete" =>
         (ret.flag <=> readyCount[ret.window_id] >= 1)

(* C32: when every fragment 1..N of a window keeps being delivered until   *)
(* it has arrived, all with sequence length N, and take_batches waits for  *)
(* Ready, a window that has not reported Ready yet gets a collect that     *)
(* returns Ready, whatever was lost, duplicated or reordered before.       *)
C32_EventuallyReady ==
    (readyCount[ObservedWindow] = 0)
      ~> (/\ ret.op = "collect" /\ ret.window_id = ObservedWindow
          /\ ret.status = Ready)

(* Ready came for MaxSeqLen fragments although a fragment had been lost,   *)
(* one had come twice and the highest number had come first.               *)
C32_Witness ==
    /\ ret.op = "collect" /\ ret.status = Ready
    /\ input = MaxSeqLen
    /\ output.lost /\ output.again
    /\ Len(accepted[ObservedWindow]) = MaxSeqLen
    /\ accepted[ObservedWindow][1].uuid.seq_num = MaxSeqLen

(* The sequence numbers of the fragments accepted by the live session. *)
AcceptedNumbers(acc, window_id) ==
    { acc[window_id][k].uuid.seq_num : k \in DOMAIN acc[window_id] }

Installed(partitions, sch, left, right) ==
    IF HasSchema(right, sch) THEN right
    ELSE IF HasSchema(left, sch) THEN left
    ELSE partitions

(* C34: with two inputs that each have a first batch, feed_two_source      *)
(* reaches every leaf of the plan: each leaf whose schema is that of an    *)
(* input holds that input afterwards, a leaf of another schema is as it    *)
(* was, and so is every node that has children.                            *)
C34_FeedTwoEveryLeaf ==
    (/\ output # <<>> /\ output[1].op = "feed_two_source"
     /\ \E sch1, sch2 \in Schemas :
          HasSchema(input.left, sch1) /\ HasSchema(input.right, sch2))
    => LET old == input.ctx.plan
       IN  /\ output[1].plan.kind = "Ok"
           /\ NodePaths(output[1].plan.value) = NodePaths(old)
           /\ \A path \in NodePaths(old) :
                Shallow(NodeAt(output[1].plan.value, path)) =
                  IF path \in LeafPaths(old)
                    THEN [Shallow(NodeAt(old, path)) EXCEPT
                            !.partitions =
                               Installed(@, NodeAt(old, path).schema,
                                         input.left, input.right)]
                    ELSE Shallow(NodeAt(old, path))

(* A join under a coalesce node, both inputs of the first schema: the      *)
(* first leaf, of the other schema, kept the batches it had, and the       *)
(* search went on to the second leaf and fed it.                           *)
C34_Witness ==
    /\ output # <<>> /\ output[1].op = "feed_two_source"
    /\ output[1].plan.kind = "Ok"
    /\ input.ctx.plan.execution_plan = "coalesce_batches_exec"
    /\ LeafPaths(input.ctx.plan) = {<<1, 1>>, <<1, 2>>}
    /\ HasSchema(input.left, Schema1) /\ HasSchema(input.right, Schema1)
    /\ NodeAt(input.ctx.plan, <<1, 1>>).schema = Schema2
    /\ NodeAt(input.ctx.plan, <<1, 2>>).schema = Schema1
    /\ NodeAt(input.ctx.plan, <<1, 1>>).partitions # <<>>
    /\ NodeAt(output[1].plan.value, <<1, 2>>).partitions = input.right
    /\ NodeAt(output[1].plan.value, <<1, 1>>).partitions
         = NodeAt(input.ctx.plan, <<1, 1>>).partitions

(* C35: with two inputs of one schema, every leaf of that schema holds the *)
(* right input after feed_two_source, and when the inputs differ no leaf   *)
(* holds the left one.                                                     *)
C35_SelfJoinTakesRight ==
    (/\ output # <<>> /\ output[1].op = "feed_two_source"
     /\ \E sch \in Schemas :
          HasSchema(input.left, sch) /\ HasSchema(input.right, sch))
    => /\ output[1].plan.kind = "Ok"
       /\ \A path \in LeafPaths(input.ctx.plan) :
            /\ HasSchema(input.right, NodeAt(input.ctx.plan, path).schema)
                 => NodeAt(output[1].plan.value, path).partitions = input.right
            /\ input.left # input.right
                 => NodeAt(output[1].plan.value, path).partitions # input.left

(* A join of a table with itself, the inputs of different lengths: both    *)
(* leaves hold the right input.                                            *)
C35_Witness ==
    /\ output # <<>> /\ output[1].op = "feed_two_source"
    /\ output[1].plan.kind = "Ok"
    /\ input.ctx.plan.execution_plan = "hash_join_exec"
    /\ LeafPaths(input.ctx.plan) = {<<1>>, <<2>>}
    /\ HasSchema(input.left, Schema1) /\ HasSchema(input.right, Schema1)
    /\ input.left # input.right
    /\ NodeAt(input.ctx.plan, <<1>>).schema = Schema1
    /\ NodeAt(input.ctx.plan, <<2>>).schema = Schema1
    /\ NodeAt(output[1].plan.value, <<1>>).partitions = input.right
    /\ NodeAt(output[1].plan.value, <<2>>).partitions = input.right

Abs(n) == IF n < 0 THEN 0 - n ELSE n

(* C36: the handler calls the generator with threads 1 and events-per-     *)
(* second the quotient of the two configured numbers, rounded towards      *)
(* zero; when the quotient is 0 it fails its assertion and neither the     *)
(* generator nor the window tasks were called; it panics when the data     *)
(* source is not a YSB event source and, once the events are generated,    *)
(* when the window is not a tumbling window in seconds.                    *)
C36_SourceHandler ==
    (output # <<>> /\ output[1].op = "handler")
    => LET payload == input.payload
           result == output[1].result
           quotient == IntDiv(payload.eps, payload.threads)
       IN  /\ payload.datasource # "YSBEvent"
                => /\ result.kind = "Panic" /\ result.by = "unreachable"
                   /\ result.generated = <<>> /\ ~result.scheduled
           /\ (payload.datasource = "YSBEvent" /\ payload.threads # 0)
                => /\ result.generated # <<>>
                        => /\ result.generated[1].threads = "1"
                           /\ result.generated[1].eps = ToString(quotient)
                           /\ quotient * Abs(payload.threads) <= Abs(payload.eps)
                           /\ Abs(payload.eps)
                                < (quotient + 1) * Abs(payload.threads)
                   /\ quotient = 0
                        => /\ result.kind = "Panic" /\ result.by = "assert"
                           /\ result.generated = <<>> /\ ~result.scheduled
                   /\ (/\ quotient > 0 /\ input.events
                       /\ payload.window
                            # [kind |-> "Tumbling", schedule |-> "Seconds"])
                        => /\ result.kind = "Panic" /\ result.by = "unreachable"
                           /\ ~result.scheduled

(* Fewer events per second than threads: the quotient is 0 and the         *)
(* assertion stopped a handler whose source and window were in order.      *)
C36_Witness ==
    /\ output # <<>> /\ output[1].op = "handler"
    /\ input.payload.datasource = "YSBEvent"
    /\ input.payload.window = [kind |-> "Tumbling", schedule |-> "Seconds"]
    /\ input.payload.threads = MaxRate /\ input.payload.eps = MaxRate - 1
    /\ input.events /\ input.tasks
    /\ output[1].result.kind = "Panic" /\ output[1].result.by = "assert"
    /\ output[1].result.generated = <<>>

====
